---- MODULE Spec2Model ----
(***************************************************************************)
(* Spatial occupancy and collision engine of the grid editor:              *)
(* GridState (src/grid/GridState.ts) on top of the bounds and footprint    *)
(* helpers of GridRenderer (src/GridMaster.ts).                            *)
(***************************************************************************)
EXTENDS Integers, Sequences, FiniteSets, TLC

\* ---------------------------------------------------------------- bounds
MaxWidth == 2
MaxHeight == 1
MaxSize == 2
MaxTuples == 2
MaxResizes == 2
MaxTileSize == 3
MaxPixel == 4

\* ------------------------------------------------------- ZLayer (enum)
TERRAIN == 0
VEHICLES == 100
PROPS == 200
EFFECTS == 300
CHARACTERS == 400
PROJECTILES == 500
UI == 1000

ZLayer == {TERRAIN, VEHICLES, PROPS, EFFECTS, CHARACTERS, PROJECTILES, UI}

\* ------------------------------------------------------------- inputs
Ids == {"a", "b"}
NoId == ""
\* What a getter answers for an id without a record.
Null == [null |-> TRUE]
\* Callers take z-layer and category of a placement from one object template.
Templates == { [zIndex |-> TERRAIN, type |-> "terrain"],
               [zIndex |-> PROPS, type |-> "prop"],
               [zIndex |-> EFFECTS, type |-> "effect"] }
Widths == 1..MaxWidth
Heights == 1..MaxHeight
Positions == [x : 0..(MaxWidth - 1), y : 0..(MaxHeight - 1)]
Sizes == [width : 1..MaxSize, height : 1..MaxSize]
TileSizes == 1..MaxTileSize
Pixels == [x : (-MaxPixel)..MaxPixel, y : (-MaxPixel)..MaxPixel]
\* Values a caller can pass as overrides to the GridRenderer constructor.
Overrides == [width : (-1)..MaxWidth, height : (-1)..MaxHeight, tileSize : (-1)..1]

VARIABLES
  config,           \* GridRenderer.config: width and height in tiles, tileSize in pixels
  occupiedTiles,    \* GridState.occupiedTiles: tile key -> list of tuples
  objectPositions,  \* GridState.objectPositions: id -> position
  objectSizes,      \* GridState.objectSizes: id -> size
  call,             \* the last call made on the engine and what it returned
  resizes,          \* number of times the renderer changed its dimensions
  placedAs,         \* id -> z-layer and category given at its last successful place
  pending,          \* id -> a place that passed its check and has not mutated yet
  staleActed,       \* some place mutated on a check older than another mutation
  gridObjects,      \* GridMaster.objects: id -> grid position and Konva group pixel
                    \* position of its GridObject
  visuals,          \* main.ts: id -> pixel position of the Konva group made for an
                    \* instance placed by the PlaceTool
  dragging,         \* the drag in progress: who handles it and dragStartPosition
  appState,         \* GridMaster.appState: own fields and references to nested objects
  heap,             \* the nested objects of an AppState, by reference
  returned,         \* the AppState object the last getAppState() handed to its caller
  selectedTemplate, \* PlaceTool.selectedTemplate
  selectedObjects,  \* GridMaster.selectedObjects: the ids GridMaster holds as selected
  insertionOrder    \* tile key -> ids in the order of their latest addition to the tile

\* The state of the application layer above GridState.
appVars == <<gridObjects, visuals, dragging, appState, heap, returned, selectedTemplate,
             selectedObjects, insertionOrder>>

vars == <<config, occupiedTiles, objectPositions, objectSizes, call, resizes, placedAs,
          pending, staleActed, gridObjects, visuals, dragging, appState, heap, returned,
          selectedTemplate, selectedObjects, insertionOrder>>

\* The three maps of one GridState instance, as one value.
state == [occupiedTiles |-> occupiedTiles,
          objectPositions |-> objectPositions,
          objectSizes |-> objectSizes]

\* ------------------------------------------------------- Map helpers
MapSet(m, k, v) == [j \in (DOMAIN m) \cup {k} |-> IF j = k THEN v ELSE m[j]]
MapDelete(m, k) == [j \in (DOMAIN m) \ {k} |-> m[j]]
EmptyMap == [j \in {} |-> 0]

\* ----------------------------------------------------- GridRenderer
\* Variant that truncates toward zero.
pixelToGridTruncate(pixel) ==
  LET trunc(n) == IF n >= 0 THEN n \div config.tileSize
                  ELSE -((-n) \div config.tileSize)
  IN [x |-> trunc(pixel.x), y |-> trunc(pixel.y)]

\* Math.floor of the quotient of two integers, tileSize > 0.
pixelToGrid(pixel) ==
  [x |-> pixel.x \div config.tileSize, y |-> pixel.y \div config.tileSize]

gridToPixel(grid) ==
  [x |-> grid.x * config.tileSize, y |-> grid.y * config.tileSize]

\* Variant that snaps to the nearest tile corner.
snapToGridNearest(pixel) ==
  gridToPixel([x |-> (2 * pixel.x + config.tileSize) \div (2 * config.tileSize),
               y |-> (2 * pixel.y + config.tileSize) \div (2 * config.tileSize)])

snapToGrid(pixel) == gridToPixel(pixelToGrid(pixel))

positionToKey(position) == <<position.x, position.y>>

isValidGridPosition(position) ==
  /\ position.x >= 0
  /\ position.x < config.width
  /\ position.y >= 0
  /\ position.y < config.height

\* Variant that does not look at the position itself.
isValidGridAreaNoOrigin(position, width, height) ==
  /\ position.x + width <= config.width
  /\ position.y + height <= config.height

isValidGridArea(position, width, height) ==
  /\ isValidGridPosition(position)
  /\ position.x + width <= config.width
  /\ position.y + height <= config.height

isValidObjectArea(position, size) ==
  isValidGridArea(position, size.width, size.height)

getOccupiedPositions(position, width, height) ==
  { p \in { [x |-> x, y |-> y] :
              x \in position.x .. (position.x + width - 1),
              y \in position.y .. (position.y + height - 1) } :
      isValidGridPosition(p) }

Min(a, b) == IF a < b THEN a ELSE b
Max(a, b) == IF a > b THEN a ELSE b

\* The tiles between the two corners, clipped to the grid, in the order of the
\* loops: x outer, y inner.
getPositionsInRectangle(topLeft, bottomRight) ==
  LET minX == Max(0, Min(topLeft.x, bottomRight.x))
      maxX == Min(config.width - 1, Max(topLeft.x, bottomRight.x))
      minY == Max(0, Min(topLeft.y, bottomRight.y))
      maxY == Min(config.height - 1, Max(topLeft.y, bottomRight.y))
      ny == maxY - minY + 1
  IN IF maxX < minX \/ maxY < minY THEN <<>>
     ELSE [i \in 1..((maxX - minX + 1) * ny) |->
             [x |-> minX + ((i - 1) \div ny), y |-> minY + ((i - 1) % ny)]]

getOccupiedPositionsForObject(position, size) ==
  getOccupiedPositions(position, size.width, size.height)

\* -------------------------------------------------------- GridState
\* Variant without the PROPS/VEHICLES rule in the second order.
hasZLayerConflictOneSided(zIndex1, zIndex2) ==
  \/ zIndex1 = CHARACTERS /\ zIndex2 = CHARACTERS
  \/ zIndex1 = VEHICLES /\ zIndex2 = VEHICLES
  \/ zIndex1 = PROPS /\ (zIndex2 = PROPS \/ zIndex2 = VEHICLES)
  \/ zIndex1 = TERRAIN /\ zIndex2 # EFFECTS /\ zIndex2 # PROJECTILES /\ zIndex2 # UI

\* Variant without the mirrored props-vehicles rule.
hasZLayerConflictNoMirror(zIndex1, zIndex2) ==
  \/ zIndex1 = CHARACTERS /\ zIndex2 = CHARACTERS
  \/ zIndex1 = VEHICLES /\ zIndex2 = VEHICLES
  \/ zIndex1 = PROPS /\ (zIndex2 = PROPS \/ zIndex2 = VEHICLES)
  \/ zIndex1 = TERRAIN /\ zIndex2 # EFFECTS /\ zIndex2 # PROJECTILES /\ zIndex2 # UI
  \/ zIndex2 = TERRAIN /\ zIndex1 # EFFECTS /\ zIndex1 # PROJECTILES /\ zIndex1 # UI

\* Variant in which terrain blocks everything except effects and projectiles,
\* the UI layer included.
hasZLayerConflictTerrainBlocksUI(zIndex1, zIndex2) ==
  \/ zIndex1 = CHARACTERS /\ zIndex2 = CHARACTERS
  \/ zIndex1 = VEHICLES /\ zIndex2 = VEHICLES
  \/ zIndex1 = PROPS /\ (zIndex2 = PROPS \/ zIndex2 = VEHICLES)
  \/ zIndex2 = PROPS /\ zIndex1 = VEHICLES
  \/ zIndex1 = TERRAIN /\ zIndex2 # EFFECTS /\ zIndex2 # PROJECTILES
  \/ zIndex2 = TERRAIN /\ zIndex1 # EFFECTS /\ zIndex1 # PROJECTILES

\* Variant in which two objects of one layer always block each other.
hasZLayerConflictSameLayer(zIndex1, zIndex2) ==
  \/ zIndex1 = zIndex2
  \/ zIndex1 = PROPS /\ zIndex2 = VEHICLES
  \/ zIndex2 = PROPS /\ zIndex1 = VEHICLES
  \/ zIndex1 = TERRAIN /\ zIndex2 # EFFECTS /\ zIndex2 # PROJECTILES /\ zIndex2 # UI
  \/ zIndex2 = TERRAIN /\ zIndex1 # EFFECTS /\ zIndex1 # PROJECTILES /\ zIndex1 # UI

\* Variant without any terrain rule.
hasZLayerConflictTerrainPassable(zIndex1, zIndex2) ==
  \/ zIndex1 = CHARACTERS /\ zIndex2 = CHARACTERS
  \/ zIndex1 = VEHICLES /\ zIndex2 = VEHICLES
  \/ zIndex1 = PROPS /\ (zIndex2 = PROPS \/ zIndex2 = VEHICLES)
  \/ zIndex2 = PROPS /\ zIndex1 = VEHICLES

hasZLayerConflict(zIndex1, zIndex2) ==
  \/ zIndex1 = CHARACTERS /\ zIndex2 = CHARACTERS
  \/ zIndex1 = VEHICLES /\ zIndex2 = VEHICLES
  \/ zIndex1 = PROPS /\ (zIndex2 = PROPS \/ zIndex2 = VEHICLES)
  \/ zIndex2 = PROPS /\ zIndex1 = VEHICLES
  \/ zIndex1 = TERRAIN /\ zIndex2 # EFFECTS /\ zIndex2 # PROJECTILES /\ zIndex2 # UI
  \/ zIndex2 = TERRAIN /\ zIndex1 # EFFECTS /\ zIndex1 # PROJECTILES /\ zIndex1 # UI

\* Variant that stops looking after the first tile of the footprint.
canPlaceObjectFirstTile(S, position, size, zIndex, objectId) ==
  /\ isValidObjectArea(position, size)
  /\ LET key == positionToKey(position) IN
       key \in DOMAIN S.occupiedTiles =>
         \A i \in 1..Len(S.occupiedTiles[key]) :
           LET info == S.occupiedTiles[key][i] IN
             \/ objectId # NoId /\ info.objectId = objectId
             \/ ~hasZLayerConflict(zIndex, info.zIndex)

\* Variant that checks the bounds only.
canPlaceObjectBoundsOnly(S, position, size, zIndex, objectId) ==
  isValidObjectArea(position, size)

canPlaceObject(S, position, size, zIndex, objectId) ==
  /\ isValidObjectArea(position, size)
  /\ \A pos \in getOccupiedPositionsForObject(position, size) :
       LET key == positionToKey(pos) IN
         key \in DOMAIN S.occupiedTiles =>
           \A i \in 1..Len(S.occupiedTiles[key]) :
             LET info == S.occupiedTiles[key][i] IN
               \/ objectId # NoId /\ info.objectId = objectId
               \/ ~hasZLayerConflict(zIndex, info.zIndex)

\* Variant that forgets to delete the size of the removed object.
removeObjectKeepSize(S, objectId) ==
  IF objectId \notin DOMAIN S.objectPositions \/ objectId \notin DOMAIN S.objectSizes
  THEN [state |-> S, ret |-> FALSE]
  ELSE
    LET positions == getOccupiedPositionsForObject(S.objectPositions[objectId],
                                                   S.objectSizes[objectId])
        keys == { positionToKey(p) : p \in positions }
        filtered(k) == SelectSeq(S.occupiedTiles[k],
                                 LAMBDA info : info.objectId # objectId)
        kept == { k \in DOMAIN S.occupiedTiles : k \notin keys \/ Len(filtered(k)) > 0 }
    IN [state |->
          [occupiedTiles |->
             [k \in kept |-> IF k \in keys THEN filtered(k) ELSE S.occupiedTiles[k]],
           objectPositions |-> MapDelete(S.objectPositions, objectId),
           objectSizes |-> S.objectSizes],
        ret |-> TRUE]

\* Variant that reports success also for an id without a record.
removeObjectReportsTrue(S, objectId) ==
  IF objectId \notin DOMAIN S.objectPositions \/ objectId \notin DOMAIN S.objectSizes
  THEN [state |-> S, ret |-> TRUE]
  ELSE
    LET positions == getOccupiedPositionsForObject(S.objectPositions[objectId],
                                                   S.objectSizes[objectId])
        keys == { positionToKey(p) : p \in positions }
        filtered(k) == SelectSeq(S.occupiedTiles[k],
                                 LAMBDA info : info.objectId # objectId)
        kept == { k \in DOMAIN S.occupiedTiles : k \notin keys \/ Len(filtered(k)) > 0 }
    IN [state |->
          [occupiedTiles |->
             [k \in kept |-> IF k \in keys THEN filtered(k) ELSE S.occupiedTiles[k]],
           objectPositions |-> MapDelete(S.objectPositions, objectId),
           objectSizes |-> MapDelete(S.objectSizes, objectId)],
        ret |-> TRUE]

\* Variant that empties every tile of the footprint instead of filtering it.
removeObjectClearsTiles(S, objectId) ==
  IF objectId \notin DOMAIN S.objectPositions \/ objectId \notin DOMAIN S.objectSizes
  THEN [state |-> S, ret |-> FALSE]
  ELSE
    LET positions == getOccupiedPositionsForObject(S.objectPositions[objectId],
                                                   S.objectSizes[objectId])
        keys == { positionToKey(p) : p \in positions }
        kept == { k \in DOMAIN S.occupiedTiles : k \notin keys }
    IN [state |->
          [occupiedTiles |-> [k \in kept |-> S.occupiedTiles[k]],
           objectPositions |-> MapDelete(S.objectPositions, objectId),
           objectSizes |-> MapDelete(S.objectSizes, objectId)],
        ret |-> TRUE]

removeObject(S, objectId) ==
  IF objectId \notin DOMAIN S.objectPositions \/ objectId \notin DOMAIN S.objectSizes
  THEN [state |-> S, ret |-> FALSE]
  ELSE
    LET positions == getOccupiedPositionsForObject(S.objectPositions[objectId],
                                                   S.objectSizes[objectId])
        keys == { positionToKey(p) : p \in positions }
        filtered(k) == SelectSeq(S.occupiedTiles[k],
                                 LAMBDA info : info.objectId # objectId)
        kept == { k \in DOMAIN S.occupiedTiles : k \notin keys \/ Len(filtered(k)) > 0 }
    IN [state |->
          [occupiedTiles |->
             [k \in kept |-> IF k \in keys THEN filtered(k) ELSE S.occupiedTiles[k]],
           objectPositions |-> MapDelete(S.objectPositions, objectId),
           objectSizes |-> MapDelete(S.objectSizes, objectId)],
        ret |-> TRUE]

\* Variant that evicts the prior record before it checks the new area.
placeObjectRemoveFirst(S, objectId, position, size, zIndex, objectType) ==
  LET R == removeObject(S, objectId).state IN
  IF ~canPlaceObject(R, position, size, zIndex, NoId)
  THEN [state |-> R, ret |-> FALSE]
  ELSE
    LET keys == { positionToKey(p) : p \in getOccupiedPositionsForObject(position, size) }
        occupationInfo == [objectId |-> objectId, zIndex |-> zIndex,
                           objectType |-> objectType]
        existing(k) == IF k \in DOMAIN R.occupiedTiles THEN R.occupiedTiles[k] ELSE <<>>
    IN [state |->
          [occupiedTiles |->
             [k \in (DOMAIN R.occupiedTiles) \cup keys |->
                IF k \in keys THEN Append(existing(k), occupationInfo)
                ELSE R.occupiedTiles[k]],
           objectPositions |-> MapSet(R.objectPositions, objectId, position),
           objectSizes |-> MapSet(R.objectSizes, objectId, size)],
        ret |-> TRUE]

\* Variant that checks the new area without excluding the object's own tuples.
placeObjectNoExclude(S, objectId, position, size, zIndex, objectType) ==
  IF ~canPlaceObject(S, position, size, zIndex, NoId)
  THEN [state |-> S, ret |-> FALSE]
  ELSE
    LET R == removeObject(S, objectId).state
        keys == { positionToKey(p) : p \in getOccupiedPositionsForObject(position, size) }
        occupationInfo == [objectId |-> objectId, zIndex |-> zIndex,
                           objectType |-> objectType]
        existing(k) == IF k \in DOMAIN R.occupiedTiles THEN R.occupiedTiles[k] ELSE <<>>
    IN [state |->
          [occupiedTiles |->
             [k \in (DOMAIN R.occupiedTiles) \cup keys |->
                IF k \in keys THEN Append(existing(k), occupationInfo)
                ELSE R.occupiedTiles[k]],
           objectPositions |-> MapSet(R.objectPositions, objectId, position),
           objectSizes |-> MapSet(R.objectSizes, objectId, size)],
        ret |-> TRUE]

placeObject(S, objectId, position, size, zIndex, objectType) ==
  IF ~canPlaceObject(S, position, size, zIndex, objectId)
  THEN [state |-> S, ret |-> FALSE]
  ELSE
    LET R == removeObject(S, objectId).state
        keys == { positionToKey(p) : p \in getOccupiedPositionsForObject(position, size) }
        occupationInfo == [objectId |-> objectId, zIndex |-> zIndex,
                           objectType |-> objectType]
        existing(k) == IF k \in DOMAIN R.occupiedTiles THEN R.occupiedTiles[k] ELSE <<>>
    IN [state |->
          [occupiedTiles |->
             [k \in (DOMAIN R.occupiedTiles) \cup keys |->
                IF k \in keys THEN Append(existing(k), occupationInfo)
                ELSE R.occupiedTiles[k]],
           objectPositions |-> MapSet(R.objectPositions, objectId, position),
           objectSizes |-> MapSet(R.objectSizes, objectId, size)],
        ret |-> TRUE]

\* The part of placeObject after its canPlaceObject check: removal of the id,
\* append of its tuple on every tile, update of position and size.
placeObjectMutate(S, objectId, position, size, zIndex, objectType) ==
  LET R == removeObject(S, objectId).state
      keys == { positionToKey(p) : p \in getOccupiedPositionsForObject(position, size) }
      occupationInfo == [objectId |-> objectId, zIndex |-> zIndex,
                         objectType |-> objectType]
      existing(k) == IF k \in DOMAIN R.occupiedTiles THEN R.occupiedTiles[k] ELSE <<>>
  IN [occupiedTiles |->
        [k \in (DOMAIN R.occupiedTiles) \cup keys |->
           IF k \in keys THEN Append(existing(k), occupationInfo)
           ELSE R.occupiedTiles[k]],
      objectPositions |-> MapSet(R.objectPositions, objectId, position),
      objectSizes |-> MapSet(R.objectSizes, objectId, size)]

\* occupation?.find(info => info.objectId === objectId): index of the first
\* tuple of the id in a list, 0 when there is none.
findIndex(occupation, objectId) ==
  IF \E i \in 1..Len(occupation) : occupation[i].objectId = objectId
  THEN CHOOSE i \in 1..Len(occupation) :
         /\ occupation[i].objectId = objectId
         /\ \A j \in 1..(i - 1) : occupation[j].objectId # objectId
  ELSE 0

\* Variant that evicts the object before it checks the new area.
moveObjectRemoveFirst(S, objectId, newPosition) ==
  IF objectId \notin DOMAIN S.objectSizes \/ objectId \notin DOMAIN S.objectPositions
  THEN [state |-> S, ret |-> FALSE]
  ELSE
    LET size == S.objectSizes[objectId]
        key == positionToKey(S.objectPositions[objectId])
        occupation == IF key \in DOMAIN S.occupiedTiles THEN S.occupiedTiles[key] ELSE <<>>
        i == findIndex(occupation, objectId)
    IN IF i = 0
       THEN [state |-> S, ret |-> FALSE]
       ELSE LET R == removeObject(S, objectId).state IN
            IF ~canPlaceObject(R, newPosition, size, occupation[i].zIndex, objectId)
            THEN [state |-> R, ret |-> FALSE]
            ELSE placeObject(R, objectId, newPosition, size,
                             occupation[i].zIndex, occupation[i].objectType)

moveObject(S, objectId, newPosition) ==
  IF objectId \notin DOMAIN S.objectSizes \/ objectId \notin DOMAIN S.objectPositions
  THEN [state |-> S, ret |-> FALSE]
  ELSE
    LET size == S.objectSizes[objectId]
        key == positionToKey(S.objectPositions[objectId])
        occupation == IF key \in DOMAIN S.occupiedTiles THEN S.occupiedTiles[key] ELSE <<>>
        i == findIndex(occupation, objectId)
    IN IF i = 0
       THEN [state |-> S, ret |-> FALSE]
       ELSE IF ~canPlaceObject(S, newPosition, size, occupation[i].zIndex, objectId)
            THEN [state |-> S, ret |-> FALSE]
            ELSE placeObject(removeObject(S, objectId).state, objectId, newPosition,
                             size, occupation[i].zIndex, occupation[i].objectType)

\* Variant that forgets to clear the ledger.
clearAllKeepTiles(S) ==
  [occupiedTiles |-> S.occupiedTiles, objectPositions |-> EmptyMap, objectSizes |-> EmptyMap]

clearAll(S) ==
  [occupiedTiles |-> EmptyMap, objectPositions |-> EmptyMap, objectSizes |-> EmptyMap]

\* The scan of handleGridResize over the ids taken before the loop; the two
\* arguments of the method are only logged.
RECURSIVE scanObjects(_, _)
scanObjects(S, objectIds) ==
  IF objectIds = {} THEN S
  ELSE LET objectId == CHOOSE o \in objectIds : TRUE
           evict == /\ objectId \in DOMAIN S.objectPositions
                    /\ objectId \in DOMAIN S.objectSizes
                    /\ ~isValidObjectArea(S.objectPositions[objectId],
                                          S.objectSizes[objectId])
       IN scanObjects(IF evict THEN removeObject(S, objectId).state ELSE S,
                      objectIds \ {objectId})

handleGridResize(S, newWidth, newHeight) ==
  scanObjects(S, DOMAIN S.objectPositions)

getStats(S) ==
  [totalObjects |-> Cardinality(DOMAIN S.objectPositions),
   occupiedTiles |-> Cardinality(DOMAIN S.occupiedTiles),
   gridSize |-> [width |-> config.width, height |-> config.height]]

getObjectPosition(S, objectId) ==
  IF objectId \in DOMAIN S.objectPositions THEN S.objectPositions[objectId] ELSE Null

getObjectSize(S, objectId) ==
  IF objectId \in DOMAIN S.objectSizes THEN S.objectSizes[objectId] ELSE Null

\* occupation.reduce without an initial value: starts from the first tuple and
\* takes a later one only when its zIndex is strictly greater.
RECURSIVE reduceHighest(_, _, _)
reduceHighest(occupation, i, highest) ==
  IF i > Len(occupation) THEN highest
  ELSE reduceHighest(occupation, i + 1,
                     IF occupation[i].zIndex > highest.zIndex
                     THEN occupation[i] ELSE highest)

\* Variant that returns the first tuple of the list.
getObjectAtPositionFirst(S, position) ==
  LET key == positionToKey(position) IN
  IF key \notin DOMAIN S.occupiedTiles \/ Len(S.occupiedTiles[key]) = 0
  THEN Null
  ELSE S.occupiedTiles[key][1]

getObjectAtPosition(S, position) ==
  LET key == positionToKey(position) IN
  IF key \notin DOMAIN S.occupiedTiles \/ Len(S.occupiedTiles[key]) = 0
  THEN Null
  ELSE reduceHighest(S.occupiedTiles[key], 2, S.occupiedTiles[key][1])

getAllObjectsAtPosition(S, position) ==
  IF positionToKey(position) \in DOMAIN S.occupiedTiles
  THEN S.occupiedTiles[positionToKey(position)] ELSE <<>>

\* objects.set(obj.objectId, obj) for every tuple of one list: a Map keeps the
\* place of a key it already has and takes the new value.
RECURSIVE setObjects(_, _, _)
setObjects(objects, objectsAtPos, i) ==
  IF i > Len(objectsAtPos) THEN objects
  ELSE LET obj == objectsAtPos[i]
           at == { j \in 1..Len(objects) : objects[j].objectId = obj.objectId }
       IN setObjects(IF at = {} THEN Append(objects, obj)
                     ELSE [objects EXCEPT ![CHOOSE j \in at : TRUE] = obj],
                     objectsAtPos, i + 1)

RECURSIVE collectObjects(_, _, _, _)
collectObjects(S, positions, i, objects) ==
  IF i > Len(positions) THEN objects
  ELSE collectObjects(S, positions, i + 1,
                      setObjects(objects, getAllObjectsAtPosition(S, positions[i]), 1))

getObjectsInArea(S, topLeft, bottomRight) ==
  collectObjects(S, getPositionsInRectangle(topLeft, bottomRight), 1, <<>>)

\* The three maps of a GridState right after construction.
newGridState ==
  [occupiedTiles |-> EmptyMap, objectPositions |-> EmptyMap, objectSizes |-> EmptyMap]

\* GridState.isValidPosition and GridState.isValidArea.
isValidPosition(position) == isValidGridPosition(position)

isValidArea(position, size) == isValidObjectArea(position, size)

\* ------------------------------------------------ application layer
\* enum ToolMode of types.ts.
ToolMode == {"place", "select", "delete", "move"}

\* DEFAULT_APP_STATE of types.ts: its dragState and selectionState are objects
\* of their own, held by reference.
DEFAULT_APP_STATE ==
  [currentTool |-> "place", showGrid |-> TRUE, snapToGrid |-> TRUE,
   dragState |-> "dragState", selectionState |-> "selectionState"]

\* The nested objects DEFAULT_APP_STATE refers to, as the module creates them.
DefaultHeap ==
  [dragState |-> [isDragging |-> FALSE, objectId |-> NoId],
   selectionState |-> [selectedObjectIds |-> <<>>, isMultiSelect |-> FALSE]]

\* GridMaster, PlaceTool and the main application right after construction:
\* appState is a spread of DEFAULT_APP_STATE, nothing is tracked, nothing is
\* selected, no drag is in progress.
AppInit ==
  /\ gridObjects = EmptyMap
  /\ visuals = EmptyMap
  /\ dragging = Null
  /\ appState = DEFAULT_APP_STATE
  /\ heap = DefaultHeap
  /\ returned = Null
  /\ selectedTemplate = Null
  /\ selectedObjects = {}
  /\ insertionOrder = EmptyMap

\* ---------------------------------------------------------- actions
SetState(S) ==
  /\ \A k \in DOMAIN S.occupiedTiles : Len(S.occupiedTiles[k]) <= MaxTuples
  /\ occupiedTiles' = S.occupiedTiles
  /\ objectPositions' = S.objectPositions
  /\ objectSizes' = S.objectSizes

Place(objectId, position, size, zIndex, objectType) ==
  LET r == placeObject(state, objectId, position, size, zIndex, objectType) IN
  /\ SetState(r.state)
  /\ call' = [op |-> "place", id |-> objectId, ret |-> r.ret]
  /\ placedAs' = IF r.ret
                 THEN MapSet(placedAs, objectId, [zLayer |-> zIndex, category |-> objectType])
                 ELSE placedAs
  /\ UNCHANGED <<config, resizes>>
  /\ UNCHANGED <<pending, staleActed>>
  /\ UNCHANGED appVars

Remove(objectId) ==
  LET r == removeObject(state, objectId) IN
  /\ SetState(r.state)
  /\ call' = [op |-> "remove", id |-> objectId, ret |-> r.ret]
  /\ placedAs' = MapDelete(placedAs, objectId)
  /\ UNCHANGED <<config, resizes>>
  /\ UNCHANGED <<pending, staleActed>>
  /\ UNCHANGED appVars

Move(objectId, newPosition) ==
  LET r == moveObject(state, objectId, newPosition) IN
  /\ SetState(r.state)
  /\ call' = [op |-> "move", id |-> objectId, ret |-> r.ret]
  /\ UNCHANGED <<config, resizes, placedAs>>
  /\ UNCHANGED <<pending, staleActed>>
  /\ UNCHANGED appVars

\* A canPlaceObject query: only its answer is recorded.
CanPlace(position, size, zIndex, objectId) ==
  /\ call' = [op |-> "canPlace", id |-> objectId,
              ret |-> canPlaceObject(state, position, size, zIndex, objectId)]
  /\ UNCHANGED <<config, occupiedTiles, objectPositions, objectSizes, resizes, placedAs>>
  /\ UNCHANGED <<pending, staleActed>>
  /\ UNCHANGED appVars

\* A getObjectAtPosition query: the id of the tuple it returned is recorded.
ObjectAt(position) ==
  LET r == getObjectAtPosition(state, position) IN
  /\ call' = [op |-> "getObjectAtPosition",
              id |-> IF r = Null THEN NoId ELSE r.objectId,
              ret |-> r # Null]
  /\ UNCHANGED <<config, occupiedTiles, objectPositions, objectSizes, resizes, placedAs>>
  /\ UNCHANGED <<pending, staleActed>>
  /\ UNCHANGED appVars

\* A getObjectsInArea query: whether it listed anything is recorded.
ObjectsInArea(topLeft, bottomRight) ==
  /\ call' = [op |-> "getObjectsInArea", id |-> NoId,
              ret |-> Len(getObjectsInArea(state, topLeft, bottomRight)) > 0]
  /\ UNCHANGED <<config, occupiedTiles, objectPositions, objectSizes, resizes, placedAs>>
  /\ UNCHANGED <<pending, staleActed>>
  /\ UNCHANGED appVars

ClearAll ==
  /\ SetState(clearAll(state))
  /\ call' = [op |-> "clearAll", id |-> NoId, ret |-> TRUE]
  /\ placedAs' = EmptyMap
  /\ UNCHANGED <<config, resizes>>
  /\ UNCHANGED <<pending, staleActed>>
  /\ UNCHANGED appVars

HandleGridResize(newWidth, newHeight) ==
  /\ SetState(handleGridResize(state, newWidth, newHeight))
  /\ call' = [op |-> "handleGridResize", id |-> NoId, ret |-> TRUE]
  /\ placedAs' = [o \in DOMAIN objectPositions' |-> placedAs[o]]
  /\ UNCHANGED <<config, resizes>>
  /\ UNCHANGED <<pending, staleActed>>
  /\ UNCHANGED appVars

\* GridRenderer.updateConfig with new dimensions (viewport resize, forced
\* resize): the bounds every GridState check reads change; GridState is not
\* called.
UpdateConfig(newWidth, newHeight) ==
  /\ resizes < MaxResizes
  /\ resizes' = resizes + 1
  /\ config' = [config EXCEPT !.width = newWidth, !.height = newHeight]
  /\ call' = [op |-> "updateConfig", id |-> NoId, ret |-> TRUE]
  /\ UNCHANGED <<occupiedTiles, objectPositions, objectSizes, placedAs>>
  /\ UNCHANGED <<pending, staleActed>>
  /\ UNCHANGED appVars

Init ==
  /\ config \in [width : Widths, height : Heights, tileSize : {MaxTileSize}]
  /\ occupiedTiles = EmptyMap
  /\ objectPositions = EmptyMap
  /\ objectSizes = EmptyMap
  /\ call = [op |-> "new", id |-> NoId, ret |-> TRUE]
  /\ resizes = 0
  /\ placedAs = EmptyMap
  /\ pending = [o \in Ids |-> Null]
  /\ staleActed = FALSE
  /\ AppInit

Next ==
  \/ \E objectId \in Ids, position \in Positions, size \in Sizes,
        template \in Templates :
       Place(objectId, position, size, template.zIndex, template.type)
  \/ \E objectId \in Ids : Remove(objectId)
  \/ \E objectId \in Ids, newPosition \in Positions : Move(objectId, newPosition)
  \/ \E position \in Positions, size \in Sizes, template \in Templates,
        objectId \in Ids \cup {NoId} :
       CanPlace(position, size, template.zIndex, objectId)
  \/ \E position \in Positions : ObjectAt(position)
  \/ \E topLeft \in Positions, bottomRight \in Positions :
       ObjectsInArea(topLeft, bottomRight)
  \/ ClearAll
  \/ \E newWidth \in Widths, newHeight \in Heights : HandleGridResize(newWidth, newHeight)
  \/ \E newWidth \in Widths, newHeight \in Heights : UpdateConfig(newWidth, newHeight)

Spec == Init /\ [][Next]_vars

\* One application of the collision policy to a pair of bands; the pair and
\* the answer are recorded.
HasZLayerConflict(zIndex1, zIndex2) ==
  /\ call' = [op |-> "hasZLayerConflict", id |-> NoId,
              ret |-> hasZLayerConflict(zIndex1, zIndex2),
              zIndex1 |-> zIndex1, zIndex2 |-> zIndex2]
  /\ UNCHANGED <<config, occupiedTiles, objectPositions, objectSizes, resizes, placedAs>>
  /\ UNCHANGED <<pending, staleActed>>
  /\ UNCHANGED appVars

\* The collision policy on its own: every pair of bands is asked, under every
\* grid size.
PolicyNext ==
  \/ \E zIndex1 \in ZLayer, zIndex2 \in ZLayer : HasZLayerConflict(zIndex1, zIndex2)
  \/ \E newWidth \in Widths, newHeight \in Heights : UpdateConfig(newWidth, newHeight)

SpecPolicy == Init /\ [][PolicyNext]_vars

\* ------------------------------------------- renderer coordinate math
PixelToGrid(pixel) ==
  /\ call' = [op |-> "pixelToGrid", id |-> NoId, ret |-> TRUE,
              arg |-> pixel, result |-> pixelToGrid(pixel)]
  /\ UNCHANGED <<config, occupiedTiles, objectPositions, objectSizes, resizes, placedAs>>
  /\ UNCHANGED <<pending, staleActed>>
  /\ UNCHANGED appVars

GridToPixel(grid) ==
  /\ call' = [op |-> "gridToPixel", id |-> NoId, ret |-> TRUE,
              arg |-> grid, result |-> gridToPixel(grid)]
  /\ UNCHANGED <<config, occupiedTiles, objectPositions, objectSizes, resizes, placedAs>>
  /\ UNCHANGED <<pending, staleActed>>
  /\ UNCHANGED appVars

SnapToGrid(pixel) ==
  /\ call' = [op |-> "snapToGrid", id |-> NoId, ret |-> TRUE,
              arg |-> pixel, result |-> snapToGrid(pixel)]
  /\ UNCHANGED <<config, occupiedTiles, objectPositions, objectSizes, resizes, placedAs>>
  /\ UNCHANGED <<pending, staleActed>>
  /\ UNCHANGED appVars

\* A renderer of any tile size and grid size, no object placed.
RendererInit ==
  /\ config \in [width : Widths, height : Heights, tileSize : TileSizes]
  /\ occupiedTiles = EmptyMap
  /\ objectPositions = EmptyMap
  /\ objectSizes = EmptyMap
  /\ call = [op |-> "new", id |-> NoId, ret |-> TRUE]
  /\ resizes = 0
  /\ placedAs = EmptyMap
  /\ pending = [o \in Ids |-> Null]
  /\ staleActed = FALSE
  /\ AppInit

RendererNext ==
  \/ \E pixel \in Pixels : PixelToGrid(pixel)
  \/ \E grid \in [x : (-1)..MaxWidth, y : (-1)..MaxHeight] : GridToPixel(grid)
  \/ \E pixel \in Pixels : SnapToGrid(pixel)

SpecRenderer == RendererInit /\ [][RendererNext]_vars

\* ------------------------------------- place as two interleavable steps
\* The check of placeObject for one caller (one per id); a place that passes
\* waits for its mutation.
PlaceCheck(objectId, position, size, zIndex, objectType) ==
  LET ok == canPlaceObject(state, position, size, zIndex, objectId) IN
  /\ pending[objectId] = Null
  /\ pending' = IF ok
                THEN [pending EXCEPT ![objectId] =
                        [position |-> position, size |-> size, zIndex |-> zIndex,
                         objectType |-> objectType, stale |-> FALSE]]
                ELSE pending
  /\ call' = [op |-> "placeCheck", id |-> objectId, ret |-> ok]
  /\ UNCHANGED <<config, occupiedTiles, objectPositions, objectSizes, resizes,
                 placedAs, staleActed>>
  /\ UNCHANGED appVars

\* The mutation of a place that passed its check; the checks of the other
\* callers still waiting are now older than a mutation.
PlaceMutate(objectId) ==
  /\ pending[objectId] # Null
  /\ LET req == pending[objectId] IN
     /\ SetState(placeObjectMutate(state, objectId, req.position, req.size,
                                   req.zIndex, req.objectType))
     /\ placedAs' = MapSet(placedAs, objectId,
                           [zLayer |-> req.zIndex, category |-> req.objectType])
     /\ staleActed' = (staleActed \/ req.stale)
  /\ pending' = [o \in Ids |->
                  IF o = objectId \/ pending[o] = Null THEN Null
                  ELSE [pending[o] EXCEPT !.stale = TRUE]]
  /\ call' = [op |-> "place", id |-> objectId, ret |-> TRUE]
  /\ UNCHANGED <<config, resizes>>
  /\ UNCHANGED appVars

InterleavedNext ==
  \/ \E objectId \in Ids, position \in Positions, size \in Sizes,
        template \in Templates :
       PlaceCheck(objectId, position, size, template.zIndex, template.type)
  \/ \E objectId \in Ids : PlaceMutate(objectId)

SpecInterleaved == Init /\ [][InterleavedNext]_vars

\* ----------------------------------------------------- construction
\* new GridRenderer(stage, overrides) followed by new GridState(renderer):
\* the overrides are spread over the responsive configuration as they are.
ConstructInit ==
  /\ config \in Overrides
  /\ occupiedTiles = EmptyMap
  /\ objectPositions = EmptyMap
  /\ objectSizes = EmptyMap
  /\ call = [op |-> "new", id |-> NoId, ret |-> TRUE]
  /\ resizes = 0
  /\ placedAs = EmptyMap
  /\ pending = [o \in Ids |-> Null]
  /\ staleActed = FALSE
  /\ AppInit

\* The engine in use after construction, the renderer keeping its size.
ConstructNext ==
  \/ \E objectId \in Ids, position \in Positions, size \in Sizes,
        template \in Templates :
       Place(objectId, position, size, template.zIndex, template.type)
  \/ \E objectId \in Ids : Remove(objectId)
  \/ \E position \in Positions, size \in Sizes, template \in Templates,
        objectId \in Ids \cup {NoId} :
       CanPlace(position, size, template.zIndex, objectId)
  \/ \E position \in Positions : ObjectAt(position)

SpecConstruct == ConstructInit /\ [][ConstructNext]_vars

\* ------------------------------------------------- helpers of the claims
\* Footprint of the data model: every tile of the rectangle, as tile keys.
footprintOf(position, size) ==
  { <<x, y>> : x \in position.x .. (position.x + size.width - 1),
               y \in position.y .. (position.y + size.height - 1) }

\* Number of tuples of an id in one occupancy list.
tuplesOf(occupation, objectId) ==
  Cardinality({ i \in 1..Len(occupation) : occupation[i].objectId = objectId })

\* Tile keys of a ledger whose list holds a tuple of the id.
tilesHolding(tiles, objectId) ==
  { k \in DOMAIN tiles : tuplesOf(tiles[k], objectId) > 0 }

ledgerUnchanged ==
  UNCHANGED <<occupiedTiles, objectPositions, objectSizes>>

MutatingOps == {"place", "move", "remove", "clearAll", "handleGridResize"}

\* ----------------------------------------------------------------- C1
\* C1: no tile's occupancy list holds two tuples of different object ids
\* whose z-layers the collision policy marks as conflicting.
C1_NoConflictingTuples ==
  \A k \in DOMAIN occupiedTiles :
    \A i, j \in 1..Len(occupiedTiles[k]) :
      occupiedTiles[k][i].objectId # occupiedTiles[k][j].objectId
        => ~hasZLayerConflict(occupiedTiles[k][i].zIndex, occupiedTiles[k][j].zIndex)

\* A placement was rejected while some tile is shared by two objects.
C1_Witness ==
  /\ call.op = "place" /\ ~call.ret
  /\ DOMAIN objectPositions = Ids
  /\ \E k \in DOMAIN occupiedTiles :
       \A o \in Ids : tuplesOf(occupiedTiles[k], o) = 1

\* ----------------------------------------------------------------- C2
\* C2: after place, move, remove, clearAll and handleGridResize calls the
\* ledger and the registry agree: the tiles holding a recorded id are exactly
\* its footprint, each holds one tuple for it, and no tile holds a tuple of
\* an id without a record.
C2_LedgerMatchesRegistry ==
  call.op \in MutatingOps =>
    \A o \in Ids :
      IF o \in DOMAIN objectPositions
      THEN /\ tilesHolding(occupiedTiles, o)
                = footprintOf(objectPositions[o], objectSizes[o])
           /\ \A k \in tilesHolding(occupiedTiles, o) :
                tuplesOf(occupiedTiles[k], o) = 1
      ELSE tilesHolding(occupiedTiles, o) = {}

\* ----------------------------------------------------------------- C3
\* C3: after place, move, remove, clearAll and handleGridResize calls every
\* recorded object has its whole footprint inside the current grid bounds.
C3_FootprintsInBounds ==
  call.op \in MutatingOps =>
    \A o \in DOMAIN objectPositions :
      \A k \in footprintOf(objectPositions[o], objectSizes[o]) :
        /\ 0 <= k[1] /\ k[1] < config.width
        /\ 0 <= k[2] /\ k[2] < config.height

\* ----------------------------------------------------------------- C4
\* C4: no tile key is retained with an empty list, stats().occupiedTiles is
\* the number of tiles covered by a live object's footprint and
\* stats().totalObjects is the number of recorded objects.
C4_StatsCountLiveTiles ==
  /\ \A k \in DOMAIN occupiedTiles : Len(occupiedTiles[k]) > 0
  /\ getStats(state).occupiedTiles =
       Cardinality(UNION { footprintOf(objectPositions[o], objectSizes[o]) :
                           o \in DOMAIN objectPositions })
  /\ getStats(state).totalObjects = Cardinality(DOMAIN objectSizes)

\* ----------------------------------------------------------------- C5
\* C5: a place call that returns false leaves the registry and the ledger
\* exactly as they were, for a new id and for an id that has a record.
C5_RejectedPlaceChangesNothing ==
  [][(call'.op = "place" /\ ~call'.ret) => ledgerUnchanged]_vars

\* A placement of a new id was rejected while the other object is on the grid.
C5_Witness ==
  /\ call.op = "place" /\ ~call.ret
  /\ call.id \notin DOMAIN objectPositions
  /\ objectPositions # EmptyMap

\* ----------------------------------------------------------------- C6
\* C6: a move that returns false is an atomic no-op: position, size, z-layer
\* and every tile's occupancy list are as before the call.
C6_RejectedMoveChangesNothing ==
  [][(call'.op = "move" /\ ~call'.ret) => ledgerUnchanged]_vars

\* A move of a recorded object was rejected.
C6_Witness ==
  /\ call.op = "move" /\ ~call.ret
  /\ call.id \in DOMAIN objectPositions

\* ----------------------------------------------------------------- C7
\* What canPlace is to answer: the area is valid and no tile of the footprint
\* holds a conflicting tuple of an id other than excludeId.
canPlaceExpected(position, size, zLayer, excludeId) ==
  /\ position.x >= 0 /\ position.y >= 0
  /\ position.x + size.width <= config.width
  /\ position.y + size.height <= config.height
  /\ \A k \in footprintOf(position, size) \cap DOMAIN occupiedTiles :
       \A i \in 1..Len(occupiedTiles[k]) :
         occupiedTiles[k][i].objectId # excludeId
           => ~hasZLayerConflict(zLayer, occupiedTiles[k][i].zIndex)

\* Arguments of the canPlace queries compared, with positions off the grid.
QueryPositions == [x : (-1)..MaxWidth, y : (-1)..MaxHeight]

\* C7: canPlace changes no state and returns true exactly when the area is
\* valid and no tile of the footprint holds a conflicting tuple of another id.
C7_CanPlaceIsExact ==
  /\ [](\A position \in QueryPositions, size \in Sizes, zLayer \in ZLayer,
           excludeId \in Ids \cup {NoId} :
          canPlaceObject(state, position, size, zLayer, excludeId)
            = canPlaceExpected(position, size, zLayer, excludeId))
  /\ [][call'.op = "canPlace" => ledgerUnchanged /\ UNCHANGED config]_vars

\* canPlace said no without an excludeId while the first tile of the grid is
\* free and another tile is taken: only a later tile of a footprint conflicts.
C7_Witness ==
  /\ call.op = "canPlace" /\ ~call.ret /\ call.id = NoId
  /\ config.width = 2
  /\ <<0, 0>> \notin DOMAIN occupiedTiles
  /\ <<1, 0>> \in DOMAIN occupiedTiles

\* ----------------------------------------------------------------- C8
\* C8: a successful place of an id that has a record relocates it: one
\* record, tuples on exactly the size.width*size.height tiles of the new
\* footprint, none elsewhere, totalObjects unchanged.
C8_ReplaceRelocates ==
  [][\A objectId \in Ids, position \in Positions, size \in Sizes,
        template \in Templates :
       (/\ Place(objectId, position, size, template.zIndex, template.type)
        /\ call'.ret
        /\ objectId \in DOMAIN objectPositions)
         => /\ objectPositions'[objectId] = position
            /\ objectSizes'[objectId] = size
            /\ tilesHolding(occupiedTiles', objectId) = footprintOf(position, size)
            /\ Cardinality(tilesHolding(occupiedTiles', objectId))
                 = size.width * size.height
            /\ \A k \in footprintOf(position, size) :
                 tuplesOf(occupiedTiles'[k], objectId) = 1
            /\ getStats(state).totalObjects
                 = Cardinality(DOMAIN objectPositions')]_vars

\* ----------------------------------------------------------------- C9
\* C9 as claimed: a rejected place of an id that has a record leaves the
\* object gone: no record and no tuple of it on any tile.
C9_RejectedReplaceEvicts ==
  [][(/\ call'.op = "place" /\ ~call'.ret
      /\ call'.id \in DOMAIN objectPositions)
       => /\ getObjectPosition([objectPositions |-> objectPositions'], call'.id) = Null
          /\ tilesHolding(occupiedTiles', call'.id) = {}]_vars

\* C9 amended: place evaluates canPlace with excludeId = id before it removes
\* anything; a rejected place of an id that has a record keeps the record
\* and its tuples as they were.
C9_RejectedReplaceKeepsObject ==
  /\ [](\A objectId \in DOMAIN objectPositions, position \in Positions,
           size \in Sizes, template \in Templates :
          placeObject(state, objectId, position, size,
                      template.zIndex, template.type).ret
            = canPlaceExpected(position, size, template.zIndex, objectId))
  /\ [][(/\ call'.op = "place" /\ ~call'.ret
         /\ call'.id \in DOMAIN objectPositions)
          => /\ getObjectPosition([objectPositions |-> objectPositions'], call'.id)
                  = objectPositions[call'.id]
             /\ getObjectSize([objectSizes |-> objectSizes'], call'.id)
                  = objectSizes[call'.id]
             /\ tilesHolding(occupiedTiles', call'.id)
                  = tilesHolding(occupiedTiles, call'.id)
             /\ tilesHolding(occupiedTiles', call'.id) # {}]_vars

\* A place of a recorded id was rejected and the object is still recorded.
C9_Witness ==
  /\ call.op = "place" /\ ~call.ret
  /\ call.id \in DOMAIN objectPositions
  /\ tilesHolding(occupiedTiles, call.id) # {}

\* ---------------------------------------------------------------- C10
\* C10: remove returns true exactly when a record exists; afterwards no tile
\* holds a tuple of the id and position and size are null; an immediately
\* repeated remove returns false and changes nothing.
C10_RemoveIsComplete ==
  [][call'.op = "remove" =>
       /\ call'.ret = (call'.id \in DOMAIN objectPositions)
       /\ call'.ret =>
            /\ tilesHolding(occupiedTiles', call'.id) = {}
            /\ getObjectPosition([objectPositions |-> objectPositions'], call'.id) = Null
            /\ getObjectSize([objectSizes |-> objectSizes'], call'.id) = Null
       /\ (call.op = "remove" /\ call.ret /\ call.id = call'.id) =>
            ~call'.ret /\ ledgerUnchanged]_vars

\* ---------------------------------------------------------------- C11
\* C11: a move that returns true leaves the object at the new position with
\* the size, z-layer and category it had, with tuples on exactly the tiles of
\* the new footprint, and the state is the one remove followed by place of the
\* same object at the new position reaches.
C11_MoveRelocates ==
  [][(call'.op = "move" /\ call'.ret) =>
       LET objectId == call'.id
           size == objectSizes[objectId]
           placed == placedAs[objectId]
       IN
       /\ objectId \in DOMAIN objectPositions'
       /\ objectSizes'[objectId] = size
       /\ tilesHolding(occupiedTiles', objectId)
            = footprintOf(objectPositions'[objectId], size)
       /\ \A k \in tilesHolding(occupiedTiles', objectId) :
            \A i \in 1..Len(occupiedTiles'[k]) :
              occupiedTiles'[k][i].objectId = objectId
                => /\ occupiedTiles'[k][i].zIndex = placed.zLayer
                   /\ occupiedTiles'[k][i].objectType = placed.category
       /\ state' = placeObject(removeObject(state, objectId).state, objectId,
                               objectPositions'[objectId], size,
                               placed.zLayer, placed.category).state]_vars

\* ---------------------------------------------------------------- C12
\* C12: move returns false only when the id has no record or canPlace at the
\* new position, with the size of the record, the z-layer given at the last
\* successful place and the id excluded, is false.
C12_MoveUsesRecord ==
  \A objectId \in Ids, newPosition \in Positions :
    ~moveObject(state, objectId, newPosition).ret
      => \/ objectId \notin DOMAIN objectPositions
         \/ ~canPlaceObject(state, newPosition, objectSizes[objectId],
                            placedAs[objectId].zLayer, objectId)

\* ---------------------------------------------------------------- C13
\* Some recorded object other than objectId has a tuple on the footprint whose
\* z-layer conflicts with zLayer.
otherObjectConflicts(position, size, zLayer, objectId) ==
  \E k \in footprintOf(position, size) \cap DOMAIN occupiedTiles :
    \E i \in 1..Len(occupiedTiles[k]) :
      /\ occupiedTiles[k][i].objectId # objectId
      /\ occupiedTiles[k][i].objectId \in DOMAIN objectPositions
      /\ hasZLayerConflict(zLayer, occupiedTiles[k][i].zIndex)

\* C13: a move of a recorded object succeeds whenever the new area is valid
\* and no other object conflicts on it, and a move to its current position
\* returns true and leaves position, size, z-layer and occupied tiles as they
\* were.
C13_NoSelfBlocking ==
  \A objectId \in DOMAIN objectPositions :
    /\ \A newPosition \in Positions :
         (/\ isValidObjectArea(newPosition, objectSizes[objectId])
          /\ ~otherObjectConflicts(newPosition, objectSizes[objectId],
                                   placedAs[objectId].zLayer, objectId))
           => moveObject(state, objectId, newPosition).ret
    /\ LET r == moveObject(state, objectId, objectPositions[objectId]) IN
       /\ r.ret
       /\ r.state.objectPositions[objectId] = objectPositions[objectId]
       /\ r.state.objectSizes[objectId] = objectSizes[objectId]
       /\ tilesHolding(r.state.occupiedTiles, objectId)
            = tilesHolding(occupiedTiles, objectId)
       /\ \A k \in tilesHolding(r.state.occupiedTiles, objectId) :
            \A i \in 1..Len(r.state.occupiedTiles[k]) :
              r.state.occupiedTiles[k][i].objectId = objectId
                => r.state.occupiedTiles[k][i].zIndex = placedAs[objectId].zLayer

\* ---------------------------------------------------------------- C14
\* C14: the collision policy is symmetric: the answer for a pair of bands is
\* the answer for the pair in the other order.
C14_PolicySymmetric ==
  call.op = "hasZLayerConflict"
    => call.ret = hasZLayerConflict(call.zIndex2, call.zIndex1)

\* The policy was asked about vehicles against props, the pair whose mirror
\* has a rule of its own, and reported a conflict.
C14_Witness ==
  /\ call.op = "hasZLayerConflict"
  /\ call.zIndex1 = VEHICLES /\ call.zIndex2 = PROPS
  /\ call.ret

\* ---------------------------------------------------------------- C15
\* The policy table: the ordered pairs of bands that conflict.
PolicyTable ==
  { <<CHARACTERS, CHARACTERS>>, <<VEHICLES, VEHICLES>>, <<PROPS, PROPS>>,
    <<PROPS, VEHICLES>>, <<VEHICLES, PROPS>>,
    <<TERRAIN, TERRAIN>>,
    <<TERRAIN, VEHICLES>>, <<VEHICLES, TERRAIN>>,
    <<TERRAIN, PROPS>>, <<PROPS, TERRAIN>>,
    <<TERRAIN, CHARACTERS>>, <<CHARACTERS, TERRAIN>> }

NonBlockingLayers == {EFFECTS, PROJECTILES}

\* The ledger without the effects and projectiles tuples of ids other than
\* objectId.
withoutNonBlocking(S, objectId) ==
  LET keep(info) == info.objectId = objectId \/ info.zIndex \notin NonBlockingLayers
      kept == [k \in DOMAIN S.occupiedTiles |-> SelectSeq(S.occupiedTiles[k], keep)]
  IN [S EXCEPT !.occupiedTiles =
        [k \in { key \in DOMAIN kept : Len(kept[key]) > 0 } |-> kept[k]]]

isValidAreaUnder(width, height, position, size) ==
  /\ position.x >= 0 /\ position.y >= 0
  /\ position.x + size.width <= width
  /\ position.y + size.height <= height

\* C17: after handleGridResize(newWidth, newHeight) every object whose
\* footprint is not a valid area on a newWidth x newHeight grid is removed
\* (its position is null) and totalObjects went down by the number of such
\* objects.
C17_ResizeEvicts ==
  [][\A newWidth \in Widths, newHeight \in Heights :
       HandleGridResize(newWidth, newHeight) =>
         LET out == { o \in DOMAIN objectPositions :
                        ~isValidAreaUnder(newWidth, newHeight,
                                          objectPositions[o], objectSizes[o]) }
         IN /\ \A o \in out :
                 getObjectPosition([objectPositions |-> objectPositions'], o) = Null
            /\ getStats(state)'.totalObjects
                 = getStats(state).totalObjects - Cardinality(out)]_vars

\* ---------------------------------------------------------------- C18
\* C18: handleGridResize(newWidth, newHeight) makes newWidth x newHeight the
\* grid bounds: afterwards gridSize of the stats equals them and position,
\* area and canPlace checks judge against them.
C18_ResizeSetsBounds ==
  [][\A newWidth \in Widths, newHeight \in Heights :
       HandleGridResize(newWidth, newHeight) =>
         /\ getStats(state)'.gridSize = [width |-> newWidth, height |-> newHeight]
         /\ \A position \in QueryPositions, size \in Sizes :
              /\ isValidGridPosition(position)'
                   = isValidAreaUnder(newWidth, newHeight, position,
                                      [width |-> 1, height |-> 1])
              /\ isValidObjectArea(position, size)'
                   = isValidAreaUnder(newWidth, newHeight, position, size)
              /\ canPlaceObject(state, position, size, EFFECTS, NoId)'
                   = isValidAreaUnder(newWidth, newHeight, position, size)]_vars

\* ---------------------------------------------------------------- C19
\* Every recorded id has a position, a size and a tuple on its position tile.
noPartialRecord ==
  /\ DOMAIN objectPositions = DOMAIN objectSizes
  /\ \A o \in DOMAIN objectPositions :
       /\ positionToKey(objectPositions[o]) \in DOMAIN occupiedTiles
       /\ tuplesOf(occupiedTiles[positionToKey(objectPositions[o])], o) > 0

\* C19: an id gets a record only by a successful place of it, changes position
\* only by a successful move or place of it, loses its record only by a remove
\* of it, clearAll or handleGridResize; at all times a recorded id has both
\* position and size and a tuple on its position tile.
C19_ObjectLifecycle ==
  /\ []noPartialRecord
  /\ [][\A o \in Ids :
          /\ (o \notin DOMAIN objectPositions /\ o \in DOMAIN objectPositions')
               => call' = [op |-> "place", id |-> o, ret |-> TRUE]
          /\ (/\ o \in DOMAIN objectPositions /\ o \in DOMAIN objectPositions'
              /\ objectPositions'[o] # objectPositions[o])
               => \/ call' = [op |-> "place", id |-> o, ret |-> TRUE]
                  \/ call' = [op |-> "move", id |-> o, ret |-> TRUE]
          /\ (o \in DOMAIN objectPositions /\ o \notin DOMAIN objectPositions')
               => \/ call' = [op |-> "remove", id |-> o, ret |-> TRUE]
                  \/ call'.op \in {"clearAll", "handleGridResize"}]_vars

\* handleGridResize evicted one object and kept the other.
C19_Witness ==
  /\ call.op = "handleGridResize"
  /\ Cardinality(DOMAIN objectPositions) = 1
  /\ \E o \in Ids \ DOMAIN objectPositions : tilesHolding(occupiedTiles, o) # {}

\* ---------------------------------------------------------------- C20
\* C20: getObjectAtPosition returns null when no tuple is recorded at the
\* position, and otherwise a tuple recorded there whose z-layer is at least
\* that of every tuple at the position.
C20_ObjectAtIsTopmost ==
  \A position \in QueryPositions :
    LET r == getObjectAtPosition(state, position)
        key == positionToKey(position)
    IN IF key \notin DOMAIN occupiedTiles \/ Len(occupiedTiles[key]) = 0
       THEN r = Null
       ELSE /\ \E i \in 1..Len(occupiedTiles[key]) : occupiedTiles[key][i] = r
            /\ \A i \in 1..Len(occupiedTiles[key]) :
                 r.zIndex >= occupiedTiles[key][i].zIndex

\* A query returned the second tuple of a tile, which lies above the first.
C20_Witness ==
  /\ call.op = "getObjectAtPosition" /\ call.ret
  /\ \E k \in DOMAIN occupiedTiles :
       /\ Len(occupiedTiles[k]) = 2
       /\ occupiedTiles[k][2].zIndex > occupiedTiles[k][1].zIndex
       /\ occupiedTiles[k][2].objectId = call.id
       /\ occupiedTiles[k][1].objectId # call.id

\* ---------------------------------------------------------------- C21
\* Tile keys of the rectangle spanned by two corners, clipped to the grid.
rectangleTiles(a, b) ==
  { k \in (0..(config.width - 1)) \X (0..(config.height - 1)) :
      /\ Min(a.x, b.x) <= k[1] /\ k[1] <= Max(a.x, b.x)
      /\ Min(a.y, b.y) <= k[2] /\ k[2] <= Max(a.y, b.y) }

\* C21: getObjectsInArea lists, once each, exactly the objects whose footprint
\* has a tile inside the rectangle spanned by the two corners (either corner
\* order, clipped to the grid).
C21_ObjectsInAreaExact ==
  \A a \in QueryPositions, b \in QueryPositions :
    LET r == getObjectsInArea(state, a, b) IN
    /\ { r[i].objectId : i \in 1..Len(r) }
         = { o \in DOMAIN objectPositions :
               footprintOf(objectPositions[o], objectSizes[o])
                 \cap rectangleTiles(a, b) # {} }
    /\ \A i, j \in 1..Len(r) : r[i].objectId = r[j].objectId => i = j

\* ---------------------------------------------------------------- C22
\* C22: after clearAll the stats report 0 objects and 0 occupied tiles, every
\* position, tuple and list query answers null or empty, and the three maps
\* are those of a freshly constructed engine, so that every later call is
\* answered as by a fresh engine with the same bounds.
C22_ClearAllResets ==
  call.op = "clearAll" =>
    /\ getStats(state).totalObjects = 0
    /\ getStats(state).occupiedTiles = 0
    /\ \A position \in QueryPositions :
         /\ getObjectAtPosition(state, position) = Null
         /\ getAllObjectsAtPosition(state, position) = <<>>
    /\ \A objectId \in Ids :
         /\ getObjectPosition(state, objectId) = Null
         /\ getObjectSize(state, objectId) = Null
    /\ state = newGridState

\* clearAll ran on an engine whose renderer had been resized twice.
C22_Witness ==
  /\ call.op = "clearAll"
  /\ resizes = MaxResizes
  /\ getStats(state).totalObjects = 0

\* ---------------------------------------------------------------- C23
\* C23: for an id without a record remove and move return false and change
\* nothing and position and size are null; a placement on an invalid area or
\* on a conflicting tuple of another id returns false and changes nothing.
C23_UnknownIdAndRejections ==
  /\ \A objectId \in Ids \ DOMAIN objectPositions :
       /\ removeObject(state, objectId) = [state |-> state, ret |-> FALSE]
       /\ \A newPosition \in QueryPositions :
            moveObject(state, objectId, newPosition) = [state |-> state, ret |-> FALSE]
       /\ getObjectPosition(state, objectId) = Null
       /\ getObjectSize(state, objectId) = Null
  /\ \A objectId \in Ids, position \in QueryPositions, size \in Sizes,
        template \in Templates :
       ~canPlaceExpected(position, size, template.zIndex, objectId)
         => placeObject(state, objectId, position, size,
                        template.zIndex, template.type)
              = [state |-> state, ret |-> FALSE]

\* A remove or move of an id without a record was answered false while the
\* other id is recorded.
C23_Witness ==
  /\ call.op \in {"remove", "move"} /\ ~call.ret
  /\ call.id \notin DOMAIN objectPositions
  /\ DOMAIN objectPositions # {}

\* ---------------------------------------------------------------- C24
\* C24: no engine exists whose tileSize, width or height is not positive:
\* construction with such a value fails.
C24_ConstructionValidates ==
  /\ config.tileSize > 0
  /\ config.width > 0
  /\ config.height > 0

\* ---------------------------------------------------------------- C26
\* g is the floor of p / t: the tile that starts at or before p and ends
\* after it.
isFloorOf(g, p, t) == g * t <= p /\ p < (g + 1) * t

\* C26: pixelToGrid gives, in each coordinate, the floor of pixel / tileSize:
\* a pixel on a tile boundary maps to the tile starting there and a negative
\* pixel to a negative tile index.
C26_PixelToGridFloors ==
  call.op = "pixelToGrid" =>
    /\ isFloorOf(call.result.x, call.arg.x, config.tileSize)
    /\ isFloorOf(call.result.y, call.arg.y, config.tileSize)
    /\ call.arg.x < 0 => call.result.x < 0
    /\ call.arg.y < 0 => call.result.y < 0

\* Pixel (-1, tileSize) was converted with tiles of 2 pixels: a negative
\* pixel and a pixel on a tile boundary.
C26_Witness ==
  /\ call.op = "pixelToGrid"
  /\ config.tileSize = 2
  /\ call.arg = [x |-> -1, y |-> 2]
  /\ call.result = [x |-> -1, y |-> 1]

C28_ValidAreaExact ==
  \A position \in QueryPositions, size \in Sizes :
    /\ isValidArea(position, size)
         = (/\ isValidPosition(position)
            /\ position.x + size.width <= config.width
            /\ position.y + size.height <= config.height)
    /\ isValidArea(position, size)
         = (\A k \in footprintOf(position, size) :
              isValidPosition([x |-> k[1], y |-> k[2]]))
    /\ isValidArea(position, size)
         = isValidGridArea(position, size.width, size.height)

\* canPlace said no on an empty grid of width 2: the area alone decided.
C28_Witness ==
  /\ call.op = "canPlace" /\ ~call.ret
  /\ DOMAIN occupiedTiles = {}
  /\ config.width = 2

\* ---------------------------------------------------------------- C29
\* C29: getOccupiedPositions returns exactly the size.width*size.height tiles
\* of the rectangle starting at the position, also the ones outside the grid.
C29_FootprintNotClipped ==
  \A position \in QueryPositions, size \in Sizes :
    LET positions == getOccupiedPositionsForObject(position, size) IN
    /\ Cardinality(positions) = size.width * size.height
    /\ { positionToKey(p) : p \in positions } = footprintOf(position, size)

\* ---------------------------------------------------------------- C30
\* The tile is inside the grid and every tuple on it is a terrain tuple of an
\* id other than objectId, at least one.
terrainOfOthersAt(position, objectId) ==
  LET occupation == getAllObjectsAtPosition(state, position) IN
  /\ isValidPosition(position)
  /\ Len(occupation) > 0
  /\ \A i \in 1..Len(occupation) :
       /\ occupation[i].zIndex = TERRAIN
       /\ occupation[i].objectId # objectId

OneByOne == [width |-> 1, height |-> 1]

C25_AtomicPlacesKeepInvariant ==
  ~staleActed => C1_NoConflictingTuples

\* Two places passed their checks, both mutated, and a tile holds two
\* conflicting tuples.
C25_Witness ==
  /\ staleActed
  /\ call.op = "place" /\ call.ret
  /\ ~C1_NoConflictingTuples

\* ---------------------------------------------------------- GridMaster
\* Entries of DEFAULT_TEMPLATES that fit the grids of the model; weight is the
\* weight given in customProperties.
DEFAULT_TEMPLATES ==
  { [id |-> "human-warrior", type |-> "character",
     size |-> [width |-> 1, height |-> 1], defaultZIndex |-> CHARACTERS, weight |-> 5],
    [id |-> "war-cart", type |-> "vehicle",
     size |-> [width |-> 2, height |-> 1], defaultZIndex |-> VEHICLES, weight |-> 10],
    [id |-> "stone-pillar", type |-> "terrain",
     size |-> [width |-> 1, height |-> 1], defaultZIndex |-> TERRAIN, weight |-> 15],
    [id |-> "wooden-crate", type |-> "prop",
     size |-> [width |-> 1, height |-> 1], defaultZIndex |-> PROPS, weight |-> 3] }

\* An id as GridObject.generateId and PlaceTool.generateObjectId make one: a
\* string no object, tuple or Konva group carries yet.
isNewId(objectId) ==
  /\ objectId \notin DOMAIN objectPositions
  /\ objectId \notin DOMAIN objectSizes
  /\ objectId \notin DOMAIN gridObjects
  /\ objectId \notin DOMAIN visuals
  /\ \A k \in DOMAIN occupiedTiles : tuplesOf(occupiedTiles[k], objectId) = 0

\* new GridObject(template, position, gridMaster): the instance with its
\* position, and the Konva group created at the pixel of that position.
newGridObject(position) ==
  [position |-> position, group |-> gridToPixel(position)]

\* GridObject.moveTo
moveTo(gridObject, position) ==
  [position |-> position, group |-> gridToPixel(position)]

\* GridMaster.placeObjectFromTemplate; objectId is the id the new GridObject
\* generated for itself.
placeObjectFromTemplate(G, S, template, position, objectId) ==
  IF ~canPlaceObject(S, position, template.size, template.defaultZIndex, NoId)
  THEN [objects |-> G, state |-> S, ret |-> FALSE]
  ELSE LET placed == placeObject(S, objectId, position, template.size,
                                 template.defaultZIndex, template.type)
       IN IF ~placed.ret
          THEN [objects |-> G, state |-> S, ret |-> FALSE]
          ELSE [objects |-> MapSet(G, objectId, newGridObject(position)),
                state |-> placed.state, ret |-> TRUE]

\* GridMaster.removeObject, the part on objects and GridState.
GridMaster_removeObject(G, S, objectId) ==
  LET removed == removeObject(S, objectId) IN
  [objects |-> IF removed.ret /\ objectId \in DOMAIN G THEN MapDelete(G, objectId) ELSE G,
   state |-> removed.state, ret |-> removed.ret]

\* Variant that moves the GridObject whatever GridState answered.
GridMaster_moveObjectAlways(G, S, objectId, newPosition) ==
  IF objectId \notin DOMAIN G
  THEN [objects |-> G, state |-> S, ret |-> FALSE]
  ELSE LET moved == moveObject(S, objectId, newPosition) IN
       [objects |-> [G EXCEPT ![objectId] = moveTo(G[objectId], newPosition)],
        state |-> moved.state, ret |-> moved.ret]

\* GridMaster.moveObject
GridMaster_moveObject(G, S, objectId, newPosition) ==
  IF objectId \notin DOMAIN G
  THEN [objects |-> G, state |-> S, ret |-> FALSE]
  ELSE LET moved == moveObject(S, objectId, newPosition) IN
       [objects |-> IF moved.ret
                    THEN [G EXCEPT ![objectId] = moveTo(G[objectId], newPosition)]
                    ELSE G,
        state |-> moved.state, ret |-> moved.ret]

\* ------------------------------------------------------------ PlaceTool
\* DEFAULT_PROPERTIES, the fields the stacking rules read.
DEFAULT_PROPERTIES ==
  [character |-> [weight |-> 5, stackable |-> FALSE, climbable |-> FALSE],
   terrain |-> [weight |-> 10, stackable |-> TRUE, climbable |-> TRUE],
   prop |-> [weight |-> 3, stackable |-> TRUE, climbable |-> FALSE],
   vehicle |-> [weight |-> 8, stackable |-> FALSE, climbable |-> TRUE],
   effect |-> [weight |-> 0, stackable |-> FALSE, climbable |-> FALSE],
   spell |-> [weight |-> 0, stackable |-> FALSE, climbable |-> FALSE]]

\* SIZE_WEIGHT_MULTIPLIERS in tenths; a size without an entry counts 1.0.
SIZE_WEIGHT_MULTIPLIERS(size) ==
  IF size.width = 1 /\ size.height = 1 THEN 10
  ELSE IF size.width + size.height = 3 THEN 13
  ELSE IF size.width = 2 /\ size.height = 2 THEN 18
  ELSE 10

\* Math.round(baseWeight * sizeMultiplier); a weight 0 in customProperties
\* falls back to the default of the type.
getObjectWeight(template) ==
  LET baseWeight == IF template.weight # 0 THEN template.weight
                    ELSE DEFAULT_PROPERTIES[template.type].weight
  IN (baseWeight * SIZE_WEIGHT_MULTIPLIERS(template.size) + 5) \div 10

getObjectTypeFromZIndex(zIndex) ==
  CASE zIndex = TERRAIN -> "terrain"
    [] zIndex = VEHICLES -> "vehicle"
    [] zIndex = PROPS -> "prop"
    [] zIndex = CHARACTERS -> "character"
    [] zIndex = EFFECTS -> "effect"
    [] zIndex = PROJECTILES -> "spell"
    [] OTHER -> "prop"

\* PlaceTool.validateStacking, its canPlace: no tuple on a tile of the
\* footprint makes one of the rules return early.
validateStacking(S, position, template) ==
  LET newWeight == getObjectWeight(template) IN
  \A pos \in getOccupiedPositions(position, template.size.width, template.size.height) :
    LET existingObjects == getAllObjectsAtPosition(S, pos) IN
    \A i \in 1..Len(existingObjects) :
      LET existing == existingObjects[i]
          existingProps == DEFAULT_PROPERTIES[getObjectTypeFromZIndex(existing.zIndex)]
          existingWeight == existingProps.weight
      IN \/ existing.zIndex = EFFECTS
         \/ existing.zIndex = PROJECTILES
         \/ IF template.type = "character"
            THEN /\ existing.zIndex # CHARACTERS
                 /\ (existing.zIndex = TERRAIN \/ existing.zIndex = VEHICLES)
                      => existingProps.climbable
            ELSE /\ existingProps.stackable
                 /\ ~(newWeight > existingWeight * 2)

\* PlaceTool.validatePlacement, its canPlace; targetTemplate is the template
\* argument or, without one, the selected template.
validatePlacement(S, position, targetTemplate) ==
  IF targetTemplate = Null THEN FALSE
  ELSE IF ~isValidGridArea(position, targetTemplate.size.width,
                           targetTemplate.size.height)
  THEN FALSE
  ELSE IF ~canPlaceObject(S, position, targetTemplate.size,
                          targetTemplate.defaultZIndex, NoId)
  THEN IF validateStacking(S, position, targetTemplate) THEN TRUE ELSE FALSE
  ELSE IF ~validateStacking(S, position, targetTemplate) THEN FALSE
  ELSE TRUE

\* PlaceTool.isValidPosition, which the placement cursor shows.
PlaceTool_isValidPosition(S, position, selected) ==
  IF selected = Null THEN FALSE ELSE validatePlacement(S, position, selected)

\* PlaceTool.attemptPlacement; objectId is the id generateObjectId made.
\* placed tells whether onObjectPlaced was called for the new instance.
attemptPlacement(S, selected, position, objectId) ==
  IF selected = Null THEN [state |-> S, ret |-> FALSE]
  ELSE IF ~validatePlacement(S, position, selected) THEN [state |-> S, ret |-> FALSE]
  ELSE LET placed == placeObject(S, objectId, position, selected.size,
                                 selected.defaultZIndex, selected.type)
       IN IF ~placed.ret THEN [state |-> S, ret |-> FALSE]
          ELSE [state |-> placed.state, ret |-> TRUE]

\* ------------------------------------------- actions of the application
PlaceObjectFromTemplate(template, position, objectId) ==
  LET r == placeObjectFromTemplate(gridObjects, state, template, position, objectId) IN
  /\ isNewId(objectId)
  /\ SetState(r.state)
  /\ gridObjects' = r.objects
  /\ call' = [op |-> "placeObjectFromTemplate", id |-> objectId, ret |-> r.ret]
  /\ placedAs' = IF r.ret
                 THEN MapSet(placedAs, objectId, [zLayer |-> template.defaultZIndex,
                                                  category |-> template.type])
                 ELSE placedAs
  /\ UNCHANGED <<config, resizes, pending, staleActed>>
  /\ UNCHANGED <<visuals, dragging, appState, heap, returned, selectedTemplate,
                 selectedObjects, insertionOrder>>

\* PlaceTool.selectTemplate
SelectTemplate(templateId) ==
  LET found == { t \in DEFAULT_TEMPLATES : t.id = templateId } IN
  /\ selectedTemplate' = IF found = {} THEN selectedTemplate
                         ELSE CHOOSE t \in found : TRUE
  /\ call' = [op |-> "selectTemplate", id |-> NoId, ret |-> found # {}]
  /\ UNCHANGED <<config, occupiedTiles, objectPositions, objectSizes, resizes, placedAs>>
  /\ UNCHANGED <<pending, staleActed>>
  /\ UNCHANGED <<gridObjects, visuals, dragging, appState, heap, returned, selectedObjects, insertionOrder>>

\* A click in PLACE mode: PlaceTool.attemptPlacement and, when it placed the
\* instance, onObjectPlaced of main.ts, whose createVisualObject makes the
\* Konva group at the pixel of the position.
AttemptPlacement(position, objectId) ==
  LET r == attemptPlacement(state, selectedTemplate, position, objectId) IN
  /\ isNewId(objectId)
  /\ SetState(r.state)
  /\ visuals' = IF r.ret THEN MapSet(visuals, objectId, gridToPixel(position))
                ELSE visuals
  /\ call' = [op |-> "attemptPlacement", id |-> objectId, ret |-> r.ret]
  /\ placedAs' = IF r.ret
                 THEN MapSet(placedAs, objectId,
                             [zLayer |-> selectedTemplate.defaultZIndex,
                              category |-> selectedTemplate.type])
                 ELSE placedAs
  /\ UNCHANGED <<config, resizes, pending, staleActed>>
  /\ UNCHANGED <<gridObjects, dragging, appState, heap, returned, selectedTemplate,
                 selectedObjects, insertionOrder>>

\* dragstart of a GridObject: the closure keeps a copy of instance.position.
GridObjectDragStart(objectId) ==
  /\ dragging = Null
  /\ objectId \in DOMAIN gridObjects
  /\ dragging' = [handler |-> "GridObject", objectId |-> objectId,
                  dragStartPosition |-> gridObjects[objectId].position]
  /\ call' = [op |-> "dragstart", id |-> objectId, ret |-> TRUE]
  /\ UNCHANGED <<config, occupiedTiles, objectPositions, objectSizes, resizes, placedAs>>
  /\ UNCHANGED <<pending, staleActed>>
  /\ UNCHANGED <<gridObjects, visuals, appState, heap, returned, selectedTemplate,
                 selectedObjects, insertionOrder>>

\* dragmove of a GridObject: Konva has put the group at the pixel, the handler
\* snaps it to the corner of the hovered tile.
GridObjectDragMove(pixel) ==
  /\ dragging # Null
  /\ dragging.handler = "GridObject"
  /\ gridObjects' = [gridObjects EXCEPT
                       ![dragging.objectId].group = gridToPixel(pixelToGrid(pixel))]
  /\ call' = [op |-> "dragmove", id |-> dragging.objectId, ret |-> TRUE]
  /\ UNCHANGED <<config, occupiedTiles, objectPositions, objectSizes, resizes, placedAs>>
  /\ UNCHANGED <<pending, staleActed>>
  /\ UNCHANGED <<visuals, dragging, appState, heap, returned, selectedTemplate,
                 selectedObjects, insertionOrder>>

\* dragend of a GridObject: GridMaster.moveObject to the tile under the group,
\* then instance.position and the group are set to the target or to the
\* position of dragstart.
GridObjectDragEnd ==
  /\ dragging # Null
  /\ dragging.handler = "GridObject"
  /\ LET objectId == dragging.objectId
         targetGridPos == pixelToGrid(gridObjects[objectId].group)
         r == GridMaster_moveObject(gridObjects, state, objectId, targetGridPos)
         finalGridPos == IF r.ret THEN targetGridPos ELSE dragging.dragStartPosition
     IN /\ SetState(r.state)
        /\ gridObjects' = [r.objects EXCEPT
                             ![objectId] = [position |-> finalGridPos,
                                            group |-> gridToPixel(finalGridPos)]]
        /\ call' = [op |-> "dragend", id |-> objectId, ret |-> r.ret]
  /\ dragging' = Null
  /\ UNCHANGED <<config, resizes, placedAs, pending, staleActed>>
  /\ UNCHANGED <<visuals, appState, heap, returned, selectedTemplate, selectedObjects, insertionOrder>>

\* onObjectMoved of main.ts: logs and allows the move.
onObjectMoved(objectId, oldPos, newPos) == TRUE

\* EventManager.handleDragStart for a group made by createVisualObject.
EventManagerDragStart(objectId) ==
  /\ dragging = Null
  /\ objectId \in DOMAIN visuals
  /\ dragging' = [handler |-> "EventManager", objectId |-> objectId,
                  dragStartPosition |-> pixelToGrid(visuals[objectId])]
  /\ call' = [op |-> "dragstart", id |-> objectId, ret |-> TRUE]
  /\ UNCHANGED <<config, occupiedTiles, objectPositions, objectSizes, resizes, placedAs>>
  /\ UNCHANGED <<pending, staleActed>>
  /\ UNCHANGED <<gridObjects, visuals, appState, heap, returned, selectedTemplate,
                 selectedObjects, insertionOrder>>

\* EventManager.handleDragMove: Konva has put the group at the pixel, the
\* handler only gives feedback.
EventManagerDragMove(pixel) ==
  /\ dragging # Null
  /\ dragging.handler = "EventManager"
  /\ visuals' = [visuals EXCEPT ![dragging.objectId] = pixel]
  /\ call' = [op |-> "dragmove", id |-> dragging.objectId, ret |-> TRUE]
  /\ UNCHANGED <<config, occupiedTiles, objectPositions, objectSizes, resizes, placedAs>>
  /\ UNCHANGED <<pending, staleActed>>
  /\ UNCHANGED <<gridObjects, dragging, appState, heap, returned, selectedTemplate,
                 selectedObjects, insertionOrder>>

\* EventManager.handleDragEnd: asks onObjectMoved and snaps the group to the
\* new tile or back to the tile of dragstart.
EventManagerDragEnd ==
  /\ dragging # Null
  /\ dragging.handler = "EventManager"
  /\ LET objectId == dragging.objectId
         newGridPos == pixelToGrid(visuals[objectId])
         success == onObjectMoved(objectId, dragging.dragStartPosition, newGridPos)
     IN /\ visuals' = [visuals EXCEPT
                         ![objectId] = IF success THEN gridToPixel(newGridPos)
                                       ELSE gridToPixel(dragging.dragStartPosition)]
        /\ call' = [op |-> "dragend", id |-> objectId, ret |-> success]
  /\ dragging' = Null
  /\ UNCHANGED <<config, occupiedTiles, objectPositions, objectSizes, resizes, placedAs>>
  /\ UNCHANGED <<pending, staleActed>>
  /\ UNCHANGED <<gridObjects, appState, heap, returned, selectedTemplate, selectedObjects, insertionOrder>>

\* Pixels a pointer leaves a dragged group at: left of the grid, inside the
\* first tile, inside the second tile.
DragPixels == { p \in Pixels : p.x \in {-1, 1, MaxPixel} /\ p.y = 0 }

\* Objects placed through GridMaster and through the PlaceTool, dragged and
\* dropped one at a time.
DragNext ==
  \/ \E template \in DEFAULT_TEMPLATES, position \in Positions, objectId \in Ids :
       PlaceObjectFromTemplate(template, position, objectId)
  \/ \E template \in DEFAULT_TEMPLATES : SelectTemplate(template.id)
  \/ \E position \in Positions, objectId \in Ids : AttemptPlacement(position, objectId)
  \/ \E objectId \in Ids : GridObjectDragStart(objectId)
  \/ \E pixel \in DragPixels : GridObjectDragMove(pixel)
  \/ GridObjectDragEnd
  \/ \E objectId \in Ids : EventManagerDragStart(objectId)
  \/ \E pixel \in DragPixels : EventManagerDragMove(pixel)
  \/ EventManagerDragEnd

SpecDrag == Init /\ [][DragNext]_vars

\* Grid position at which the Konva group of an object is shown.
displayedPosition(objectId) ==
  IF objectId \in DOMAIN gridObjects THEN pixelToGrid(gridObjects[objectId].group)
  ELSE IF objectId \in DOMAIN visuals THEN pixelToGrid(visuals[objectId])
  ELSE Null

\* ---------------------------------------------------------------- C31
\* C31: after every dragend the grid position at which the object is shown
\* equals the position GridState records for it.
C31_DragEndAgrees ==
  call.op = "dragend" => displayedPosition(call.id) = getObjectPosition(state, call.id)

\* ------------------------------------------------ GridMaster.appState
\* GridMaster.removeObject as a whole: objects, GridState and the selection.
GridMasterRemoveObject(objectId) ==
  LET r == GridMaster_removeObject(gridObjects, state, objectId)
      wasSelected == r.ret /\ objectId \in selectedObjects
  IN /\ SetState(r.state)
     /\ gridObjects' = r.objects
     /\ selectedObjects' = IF wasSelected THEN selectedObjects \ {objectId}
                           ELSE selectedObjects
     /\ heap' = IF wasSelected
                THEN [heap EXCEPT ![appState.selectionState].selectedObjectIds =
                        SelectSeq(@, LAMBDA id : id # objectId)]
                ELSE heap
     /\ call' = [op |-> "GridMaster.removeObject", id |-> objectId, ret |-> r.ret]
     /\ placedAs' = IF r.ret THEN MapDelete(placedAs, objectId) ELSE placedAs
     /\ UNCHANGED <<config, resizes, pending, staleActed>>
     /\ UNCHANGED <<visuals, dragging, appState, returned, selectedTemplate,
                    insertionOrder>>

\* GridMaster.selectObject, clearSelection included.
SelectObject(objectId) ==
  /\ selectedObjects' = {objectId}
  /\ heap' = [heap EXCEPT ![appState.selectionState].selectedObjectIds = <<objectId>>]
  /\ call' = [op |-> "selectObject", id |-> objectId, ret |-> TRUE]
  /\ UNCHANGED <<config, occupiedTiles, objectPositions, objectSizes, resizes, placedAs>>
  /\ UNCHANGED <<pending, staleActed>>
  /\ UNCHANGED <<gridObjects, visuals, dragging, appState, returned, selectedTemplate,
                 insertionOrder>>

\* GridMaster.clearSelection
ClearSelection ==
  /\ selectedObjects' = {}
  /\ heap' = [heap EXCEPT ![appState.selectionState].selectedObjectIds = <<>>]
  /\ call' = [op |-> "clearSelection", id |-> NoId, ret |-> TRUE]
  /\ UNCHANGED <<config, occupiedTiles, objectPositions, objectSizes, resizes, placedAs>>
  /\ UNCHANGED <<pending, staleActed>>
  /\ UNCHANGED <<gridObjects, visuals, dragging, appState, returned, selectedTemplate,
                 insertionOrder>>

\* A click that changes nothing.
ClickWithoutEffect ==
  /\ call' = [op |-> "click", id |-> NoId, ret |-> TRUE]
  /\ UNCHANGED <<config, occupiedTiles, objectPositions, objectSizes, resizes, placedAs>>
  /\ UNCHANGED <<pending, staleActed>>
  /\ UNCHANGED appVars

\* GridMaster.handleObjectClick: a click on the group of a GridObject.
HandleObjectClick(objectId) ==
  /\ objectId \in DOMAIN gridObjects
  /\ IF appState.currentTool = "delete" THEN GridMasterRemoveObject(objectId)
     ELSE IF appState.currentTool \in {"select", "move"} THEN SelectObject(objectId)
     ELSE ClickWithoutEffect

\* GridMaster.handleEmptySpaceClick
HandleEmptySpaceClick ==
  IF appState.currentTool = "select" THEN ClearSelection ELSE ClickWithoutEffect

\* GridMaster.setTool
SetTool(tool) ==
  /\ appState' = [appState EXCEPT !.currentTool = tool]
  /\ call' = [op |-> "setTool", id |-> NoId, ret |-> TRUE]
  /\ UNCHANGED <<config, occupiedTiles, objectPositions, objectSizes, resizes, placedAs>>
  /\ UNCHANGED <<pending, staleActed>>
  /\ UNCHANGED <<gridObjects, visuals, dragging, heap, returned, selectedTemplate,
                 selectedObjects, insertionOrder>>

\* GridMaster.getAppState: a spread of appState, so the new object has its own
\* currentTool, showGrid and snapToGrid and the same dragState and
\* selectionState objects as appState.
GetAppState ==
  /\ returned' = [object |-> "AppState", currentTool |-> appState.currentTool,
                  showGrid |-> appState.showGrid, snapToGrid |-> appState.snapToGrid,
                  dragState |-> appState.dragState,
                  selectionState |-> appState.selectionState]
  /\ call' = [op |-> "getAppState", id |-> NoId, ret |-> TRUE]
  /\ UNCHANGED <<config, occupiedTiles, objectPositions, objectSizes, resizes, placedAs>>
  /\ UNCHANGED <<pending, staleActed>>
  /\ UNCHANGED <<gridObjects, visuals, dragging, appState, heap, selectedTemplate,
                 selectedObjects, insertionOrder>>

\* GridMaster.getGridConfig: GridRenderer.getConfig, a spread of config, whose
\* fields are all numbers, strings and booleans.
GetGridConfig ==
  /\ returned' = [object |-> "GridConfig", width |-> config.width,
                  height |-> config.height, tileSize |-> config.tileSize]
  /\ call' = [op |-> "getGridConfig", id |-> NoId, ret |-> TRUE]
  /\ UNCHANGED <<config, occupiedTiles, objectPositions, objectSizes, resizes, placedAs>>
  /\ UNCHANGED <<pending, staleActed>>
  /\ UNCHANGED <<gridObjects, visuals, dragging, appState, heap, selectedTemplate,
                 selectedObjects, insertionOrder>>

\* The caller assigns to a field of the object it was handed:
\* state.currentTool = tool
WriteCurrentTool(tool) ==
  /\ returned # Null
  /\ returned.object = "AppState"
  /\ returned' = [returned EXCEPT !.currentTool = tool]
  /\ call' = [op |-> "write", id |-> NoId, ret |-> TRUE]
  /\ UNCHANGED <<config, occupiedTiles, objectPositions, objectSizes, resizes, placedAs>>
  /\ UNCHANGED <<pending, staleActed>>
  /\ UNCHANGED <<gridObjects, visuals, dragging, appState, heap, selectedTemplate,
                 selectedObjects, insertionOrder>>

\* state.selectionState.selectedObjectIds = ids
WriteSelectedObjectIds(ids) ==
  /\ returned # Null
  /\ returned.object = "AppState"
  /\ heap' = [heap EXCEPT ![returned.selectionState].selectedObjectIds = ids]
  /\ call' = [op |-> "write", id |-> NoId, ret |-> TRUE]
  /\ UNCHANGED <<config, occupiedTiles, objectPositions, objectSizes, resizes, placedAs>>
  /\ UNCHANGED <<pending, staleActed>>
  /\ UNCHANGED <<gridObjects, visuals, dragging, appState, returned, selectedTemplate,
                 selectedObjects, insertionOrder>>

\* state.dragState.isDragging = isDragging
WriteIsDragging(isDragging) ==
  /\ returned # Null
  /\ returned.object = "AppState"
  /\ heap' = [heap EXCEPT ![returned.dragState].isDragging = isDragging]
  /\ call' = [op |-> "write", id |-> NoId, ret |-> TRUE]
  /\ UNCHANGED <<config, occupiedTiles, objectPositions, objectSizes, resizes, placedAs>>
  /\ UNCHANGED <<pending, staleActed>>
  /\ UNCHANGED <<gridObjects, visuals, dragging, appState, returned, selectedTemplate,
                 selectedObjects, insertionOrder>>

\* config.width = width
WriteWidth(width) ==
  /\ returned # Null
  /\ returned.object = "GridConfig"
  /\ returned' = [returned EXCEPT !.width = width]
  /\ call' = [op |-> "write", id |-> NoId, ret |-> TRUE]
  /\ UNCHANGED <<config, occupiedTiles, objectPositions, objectSizes, resizes, placedAs>>
  /\ UNCHANGED <<pending, staleActed>>
  /\ UNCHANGED <<gridObjects, visuals, dragging, appState, heap, selectedTemplate,
                 selectedObjects, insertionOrder>>

\* GridMaster used through its tools and clicks by a caller that also writes
\* to the objects the getters hand out.
AppStateNext ==
  \/ \E template \in DEFAULT_TEMPLATES, position \in Positions, objectId \in Ids :
       PlaceObjectFromTemplate(template, position, objectId)
  \/ \E tool \in ToolMode : SetTool(tool)
  \/ \E objectId \in Ids : HandleObjectClick(objectId)
  \/ HandleEmptySpaceClick
  \/ GetAppState
  \/ GetGridConfig
  \/ \E tool \in ToolMode : WriteCurrentTool(tool)
  \/ \E ids \in {<<>>, <<"b">>} : WriteSelectedObjectIds(ids)
  \/ \E isDragging \in BOOLEAN : WriteIsDragging(isDragging)
  \/ \E width \in Widths : WriteWidth(width)

SpecAppState == Init /\ [][AppStateNext]_vars

\* What a getAppState() call reports of tool, selection and drag state.
reportedAppState ==
  [currentTool |-> appState.currentTool,
   selectionState |-> heap[appState.selectionState],
   dragState |-> heap[appState.dragState]]

\* ---------------------------------------------------------------- C32
\* C32: a write to the object getAppState() or getGridConfig() returned
\* changes neither what a later getAppState() reports of tool, selection and
\* drag state nor the grid configuration.
C32_ReturnedObjectsAreDetached ==
  [][call'.op = "write" => reportedAppState' = reportedAppState /\ config' = config]_vars

\* ---------------------------------------------------------------- C33
\* Calls that place, move or query.
UseOps == {"place", "move", "canPlace", "getObjectAtPosition", "getObjectsInArea"}

\* C33: after the renderer changed the dimensions, handleGridResize has run
\* before any further place, move or query: such a call never starts with an
\* object recorded on an area that is not valid under the current bounds.
C33_ResizeRunsBeforeUse ==
  [][call'.op \in UseOps =>
       \A o \in DOMAIN objectPositions :
         isValidObjectArea(objectPositions[o], objectSizes[o])]_vars

\* ---------------------------------------------------------------- C34
\* C34: an object evicted by handleGridResize leaves no tuple behind on any
\* tile, the tiles outside the shrunken bounds included, so that after the
\* grid is enlarged again no tile of its former footprint is occupied by it.
C34_EvictionLeavesNoGhost ==
  [][call'.op = "handleGridResize" =>
       \A o \in (DOMAIN objectPositions) \ (DOMAIN objectPositions') :
         tilesHolding(occupiedTiles', o) = {}]_vars

\* ---------------------------------------------------------------- C35
\* The tuples of an id on every tile of a ledger, in list order.
tuplesOfId(tiles, objectId) ==
  [k \in tilesHolding(tiles, objectId) |->
     SelectSeq(tiles[k], LAMBDA info : info.objectId = objectId)]

\* C35: handleGridResize(newWidth, newHeight) leaves every object whose
\* footprint is a valid area on a newWidth x newHeight grid as it was
\* (position, size, tuples with their z-layer), and evicts nothing when
\* newWidth and newHeight are at least the bounds before the call.
C35_ResizeKeepsValidObjects ==
  [][\A newWidth \in Widths, newHeight \in Heights :
       HandleGridResize(newWidth, newHeight) =>
         /\ \A o \in DOMAIN objectPositions :
              isValidAreaUnder(newWidth, newHeight, objectPositions[o], objectSizes[o])
                => /\ o \in DOMAIN objectPositions'
                   /\ objectPositions'[o] = objectPositions[o]
                   /\ objectSizes'[o] = objectSizes[o]
                   /\ tuplesOfId(occupiedTiles', o) = tuplesOfId(occupiedTiles, o)
         /\ (newWidth >= config.width /\ newHeight >= config.height)
              => DOMAIN objectPositions' = DOMAIN objectPositions]_vars

\* ---------------------------------------------------------------- C36
\* C36: a place, move or remove of one id leaves every other id as it was:
\* its position, its size and its tuples (tiles and z-layer), whether the
\* call succeeds or fails.
C36_OtherObjectsUntouched ==
  [][call'.op \in {"place", "move", "remove"} =>
       \A o \in Ids \ {call'.id} :
         /\ getObjectPosition(state, o)' = getObjectPosition(state, o)
         /\ getObjectSize(state, o)' = getObjectSize(state, o)
         /\ tuplesOfId(occupiedTiles', o) = tuplesOfId(occupiedTiles, o)]_vars

\* An object was moved onto or off a tile that holds another recorded object.
C36_Witness ==
  /\ call.op = "move" /\ call.ret
  /\ \E o \in (DOMAIN objectPositions) \ {call.id} :
       \E k \in tilesHolding(occupiedTiles, o) : tuplesOf(occupiedTiles[k], call.id) > 0

\* ------------------------------------------- objects of one layer on a tile
\* Longest occupancy list kept when objects of the EFFECTS layer share tiles.
MaxEffectTuples == 3

\* The order in which the ids that have a tuple on a tile were last added to
\* it, after the object id was added to the tiles of keys (none for a removal)
\* and the ledger became tiles.
addedLast(order, tiles, objectId, keys) ==
  [k \in DOMAIN tiles |->
     LET before == IF k \in DOMAIN order THEN order[k] ELSE <<>>
         after == IF k \in keys
                  THEN Append(SelectSeq(before, LAMBDA id : id # objectId), objectId)
                  ELSE before
     IN SelectSeq(after, LAMBDA id : tuplesOf(tiles[k], id) > 0)]

\* The ledger and the registry become those of S; lists stay within the bound.
SetEffectState(S) ==
  /\ \A k \in DOMAIN S.occupiedTiles : Len(S.occupiedTiles[k]) <= MaxEffectTuples
  /\ occupiedTiles' = S.occupiedTiles
  /\ objectPositions' = S.objectPositions
  /\ objectSizes' = S.objectSizes

\* placeObject of an object of the EFFECTS layer.
PlaceEffect(objectId, position, size) ==
  LET r == placeObject(state, objectId, position, size, EFFECTS, "effect") IN
  /\ SetEffectState(r.state)
  /\ insertionOrder' =
       IF r.ret
       THEN addedLast(insertionOrder, r.state.occupiedTiles, objectId,
                      { positionToKey(p) :
                          p \in getOccupiedPositionsForObject(position, size) })
       ELSE insertionOrder
  /\ call' = [op |-> "place", id |-> objectId, ret |-> r.ret]
  /\ placedAs' = IF r.ret
                 THEN MapSet(placedAs, objectId, [zLayer |-> EFFECTS, category |-> "effect"])
                 ELSE placedAs
  /\ UNCHANGED <<config, resizes, pending, staleActed>>
  /\ UNCHANGED <<gridObjects, visuals, dragging, appState, heap, returned,
                 selectedTemplate, selectedObjects>>

\* moveObject of an object of the EFFECTS layer.
MoveEffect(objectId, newPosition) ==
  LET r == moveObject(state, objectId, newPosition) IN
  /\ SetEffectState(r.state)
  /\ insertionOrder' =
       IF r.ret
       THEN addedLast(insertionOrder, r.state.occupiedTiles, objectId,
                      { positionToKey(p) :
                          p \in getOccupiedPositionsForObject(newPosition,
                                                              objectSizes[objectId]) })
       ELSE insertionOrder
  /\ call' = [op |-> "move", id |-> objectId, ret |-> r.ret]
  /\ UNCHANGED <<config, resizes, placedAs, pending, staleActed>>
  /\ UNCHANGED <<gridObjects, visuals, dragging, appState, heap, returned,
                 selectedTemplate, selectedObjects>>

\* removeObject of an object of the EFFECTS layer.
RemoveEffect(objectId) ==
  LET r == removeObject(state, objectId) IN
  /\ SetEffectState(r.state)
  /\ insertionOrder' = addedLast(insertionOrder, r.state.occupiedTiles, objectId, {})
  /\ call' = [op |-> "remove", id |-> objectId, ret |-> r.ret]
  /\ placedAs' = MapDelete(placedAs, objectId)
  /\ UNCHANGED <<config, resizes, pending, staleActed>>
  /\ UNCHANGED <<gridObjects, visuals, dragging, appState, heap, returned,
                 selectedTemplate, selectedObjects>>

\* Objects of the EFFECTS layer, which never block each other, placed, moved
\* and removed while the renderer changes its size, and looked up by tile.
EffectsNext ==
  \/ \E objectId \in Ids, position \in Positions, size \in Sizes :
       PlaceEffect(objectId, position, size)
  \/ \E objectId \in Ids, newPosition \in Positions : MoveEffect(objectId, newPosition)
  \/ \E objectId \in Ids : RemoveEffect(objectId)
  \/ \E newWidth \in Widths, newHeight \in Heights : UpdateConfig(newWidth, newHeight)
  \/ \E position \in Positions : ObjectAt(position)

SpecEffects == Init /\ [][EffectsNext]_vars

\* ---------------------------------------------------------------- C37
\* Ids of the tuples of a list that have its highest z-layer.
topIds(occupation) ==
  { occupation[i].objectId :
      i \in { j \in 1..Len(occupation) :
                \A l \in 1..Len(occupation) : occupation[l].zIndex <= occupation[j].zIndex } }

\* The first id of a sequence that is in a set.
firstOf(order, ids) ==
  order[CHOOSE i \in 1..Len(order) :
          /\ order[i] \in ids
          /\ \A j \in 1..(i - 1) : order[j] \notin ids]

\* C37: where the tuples of several objects on a tile share the highest
\* z-layer, objectAt returns the one of them that was added to the tile
\* earliest, an object moved or re-placed onto the tile counting from that
\* later time.
C37_TieBreakIsInsertionOrder ==
  \A position \in Positions :
    LET occupation == getAllObjectsAtPosition(state, position) IN
    (occupation # <<>> /\ Cardinality(topIds(occupation)) >= 2)
      => getObjectAtPosition(state, position).objectId
           = firstOf(insertionOrder[positionToKey(position)], topIds(occupation))

\* ------------------------------------------------- PlaceTool in use
\* A PlaceTool.validatePlacement query for the selected template: only its
\* canPlace is recorded.
ValidatePlacement(position) ==
  /\ call' = [op |-> "validatePlacement", id |-> NoId,
              ret |-> validatePlacement(state, position, selectedTemplate)]
  /\ UNCHANGED <<config, occupiedTiles, objectPositions, objectSizes, resizes, placedAs>>
  /\ UNCHANGED <<pending, staleActed>>
  /\ UNCHANGED appVars

\* deleteObject of main.ts: the Konva group of the id is looked up, the object
\* is removed from GridState and the group is destroyed.
DeleteObject(objectId) ==
  /\ objectId \in DOMAIN visuals
  /\ LET r == removeObject(state, objectId) IN
     /\ SetState(r.state)
     /\ call' = [op |-> "deleteObject", id |-> objectId, ret |-> r.ret]
  /\ visuals' = MapDelete(visuals, objectId)
  /\ placedAs' = MapDelete(placedAs, objectId)
  /\ UNCHANGED <<config, resizes, pending, staleActed>>
  /\ UNCHANGED <<gridObjects, dragging, appState, heap, returned, selectedTemplate,
                 selectedObjects, insertionOrder>>

\* The PlaceTool as the editor drives it: a template is selected, the cursor
\* asks whether a tile is valid, clicks place and delete.
PlaceToolNext ==
  \/ \E template \in DEFAULT_TEMPLATES : SelectTemplate(template.id)
  \/ \E position \in Positions : ValidatePlacement(position)
  \/ \E position \in Positions, objectId \in Ids : AttemptPlacement(position, objectId)
  \/ \E objectId \in Ids : DeleteObject(objectId)

SpecPlaceTool == Init /\ [][PlaceToolNext]_vars

\* ---------------------------------------------------------------- C38
\* C38: for the selected template validatePlacement(pos).canPlace is true
\* exactly when attemptPlacement(pos) on the same state returns true and
\* records the object in GridState.
C38_ValidationMatchesPlacement ==
  [][\A position \in Positions, objectId \in Ids :
       AttemptPlacement(position, objectId) =>
         (validatePlacement(state, position, selectedTemplate)
            <=> (call'.ret /\ getObjectPosition(state, objectId)' = position))]_vars


\* ------------------------------------------------ GridMaster in use
\* GridMaster.moveObject as a whole.
GridMasterMoveObject(objectId, newPosition) ==
  LET r == GridMaster_moveObject(gridObjects, state, objectId, newPosition) IN
  /\ SetState(r.state)
  /\ gridObjects' = r.objects
  /\ call' = [op |-> "GridMaster.moveObject", id |-> objectId, ret |-> r.ret]
  /\ UNCHANGED <<config, resizes, placedAs, pending, staleActed>>
  /\ UNCHANGED <<visuals, dragging, appState, heap, returned, selectedTemplate,
                 selectedObjects, insertionOrder>>

\* GridMaster.clearAll: every GridObject destroyed, GridState cleared, the
\* selection emptied.
GridMasterClearAll ==
  /\ SetState(clearAll(state))
  /\ gridObjects' = EmptyMap
  /\ selectedObjects' = {}
  /\ heap' = [heap EXCEPT ![appState.selectionState].selectedObjectIds = <<>>]
  /\ call' = [op |-> "GridMaster.clearAll", id |-> NoId, ret |-> TRUE]
  /\ placedAs' = EmptyMap
  /\ UNCHANGED <<config, resizes, pending, staleActed>>
  /\ UNCHANGED <<visuals, dragging, appState, returned, selectedTemplate,
                 insertionOrder>>

\* GridMaster driven through its four object operations only.
GridMasterNext ==
  \/ \E template \in DEFAULT_TEMPLATES, position \in Positions, objectId \in Ids :
       PlaceObjectFromTemplate(template, position, objectId)
  \/ \E objectId \in Ids : GridMasterRemoveObject(objectId)
  \/ \E objectId \in Ids, newPosition \in Positions :
       GridMasterMoveObject(objectId, newPosition)
  \/ GridMasterClearAll

SpecGridMaster == Init /\ [][GridMasterNext]_vars

\* ---------------------------------------------------------------- C39
\* C39: after any sequence of GridMaster.placeObjectFromTemplate,
\* removeObject, moveObject and clearAll the ids GridMaster tracks are the ids
\* GridState records, and each tracked object's position is the position
\* GridState records for it.
C39_GridMasterTracksGridState ==
  /\ DOMAIN gridObjects = DOMAIN objectPositions
  /\ \A o \in DOMAIN gridObjects : gridObjects[o].position = objectPositions[o]

\* Two objects are tracked and the last call moved one of them.
C39_Witness ==
  /\ call.op = "GridMaster.moveObject"
  /\ call.ret
  /\ Cardinality(DOMAIN gridObjects) = 2
  /\ gridObjects[call.id].position = objectPositions[call.id]

====
